---- MODULE Spec2Model ----
(***************************************************************************)
(* Noctune Studio control plane: path sandbox, permission ledger, run      *)
(* controller, event tail and the HTTP / chat handlers in front of them.   *)
(*                                                                         *)
(* A string is a sequence of chunks.  A chunk is one character ("/", ".",  *)
(* " ", "a", ...) or one of the fixed names the program appends itself     *)
(* (".noctune_cache", "runs", ...), which no caller input overlaps.        *)
(* String prefix tests (startsWith) are sequence prefix tests, so a        *)
(* sibling such as "/aa" of the root "/a" is a different string that has   *)
(* the root as a prefix.                                                   *)
(***************************************************************************)
EXTENDS Integers, Sequences, FiniteSets, TLC

\* ------------------------------------------------------------------ bounds
MaxPathLen == 5
MaxIdSegs == 3

\* ------------------------------------------------------------- strings
Sep == "/"
Dot == "."
DotDot == <<".", ".">>
Empty == <<>>

RECURSIVE StrsUpTo(_, _)
StrsUpTo(chars, n) ==
  IF n = 0 THEN {<<>>}
  ELSE LET shorter == StrsUpTo(chars, n - 1)
       IN shorter \cup {Append(s, c) : s \in {t \in shorter : Len(t) = n - 1}, c \in chars}

StartsWith(s, pre) ==
  /\ Len(pre) <= Len(s)
  /\ SubSeq(s, 1, Len(pre)) = pre

EndsWith(s, suf) ==
  /\ Len(suf) <= Len(s)
  /\ SubSeq(s, Len(s) - Len(suf) + 1, Len(s)) = suf

RECURSIVE TrimLeft(_)
TrimLeft(s) == IF s # <<>> /\ Head(s) = " " THEN TrimLeft(Tail(s)) ELSE s

RECURSIVE TrimRight(_)
TrimRight(s) ==
  IF s # <<>> /\ s[Len(s)] = " " THEN TrimRight(SubSeq(s, 1, Len(s) - 1)) ELSE s

Trim(s) == TrimRight(TrimLeft(s))

\* s.split("/"): the segments between separators, empty ones included.
RECURSIVE SplitFrom(_, _, _, _)
SplitFrom(s, i, cur, out) ==
  IF i > Len(s) THEN Append(out, cur)
  ELSE IF s[i] = Sep THEN SplitFrom(s, i + 1, <<>>, Append(out, cur))
  ELSE SplitFrom(s, i + 1, Append(cur, s[i]), out)

SplitSep(s) == SplitFrom(s, 1, <<>>, <<>>)

RECURSIVE JoinSep(_)
JoinSep(segs) ==
  IF segs = <<>> THEN <<>>
  ELSE IF Len(segs) = 1 THEN Head(segs)
  ELSE Head(segs) \o <<Sep>> \o JoinSep(Tail(segs))

\* ------------------------------------------------- node:path (POSIX)
\* normalizeString: "" and "." segments vanish, ".." removes the segment
\* before it, or is kept when nothing is left and allowAboveRoot is set.
RECURSIVE NormSegs(_, _, _)
NormSegs(segs, acc, allowAboveRoot) ==
  IF segs = <<>> THEN acc
  ELSE LET g == Head(segs)
           next == IF g = <<>> \/ g = <<Dot>> THEN acc
                   ELSE IF g = DotDot
                        THEN IF acc # <<>> /\ acc[Len(acc)] # DotDot
                             THEN SubSeq(acc, 1, Len(acc) - 1)
                             ELSE IF allowAboveRoot THEN Append(acc, DotDot) ELSE acc
                        ELSE Append(acc, g)
       IN NormSegs(Tail(segs), next, allowAboveRoot)

IsAbsolute(s) == s # <<>> /\ Head(s) = Sep

\* The absolute path string of a sequence of segments: "/" for none.
AbsPath(segs) == <<Sep>> \o JoinSep(segs)

\* The segments of an absolute path string.
SegsOf(p) == NormSegs(SplitSep(p), <<>>, FALSE)

\* path.resolve(from, to) for an absolute `from`.
PathResolveFrom(from, to) ==
  IF IsAbsolute(to) THEN AbsPath(SegsOf(to))
  ELSE IF to = <<>> THEN AbsPath(SegsOf(from))
  ELSE AbsPath(SegsOf(from \o <<Sep>> \o to))

\* path.join(a, b, ...) of string arguments: the non-empty ones joined by
\* "/", then normalized; a trailing separator is kept.
RECURSIVE JoinFrom(_, _, _)
JoinFrom(args, i, acc) ==
  IF i > Len(args) THEN acc
  ELSE IF args[i] = <<>> THEN JoinFrom(args, i + 1, acc)
  ELSE IF acc = <<>> THEN JoinFrom(args, i + 1, args[i])
  ELSE JoinFrom(args, i + 1, acc \o <<Sep>> \o args[i])

JoinArgs(args) == JoinFrom(args, 1, <<>>)

PathNormalize(s) ==
  IF s = <<>> THEN <<Dot>>
  ELSE LET abs == IsAbsolute(s)
           trailing == s[Len(s)] = Sep
           body == JoinSep(NormSegs(SplitSep(s), <<>>, ~abs))
       IN IF body = <<>>
          THEN IF abs THEN <<Sep>> ELSE IF trailing THEN <<Dot, Sep>> ELSE <<Dot>>
          ELSE (IF abs THEN <<Sep>> ELSE <<>>) \o body \o (IF trailing THEN <<Sep>> ELSE <<>>)

PathJoin(args) ==
  LET joined == JoinArgs(args)
  IN IF joined = <<>> THEN <<Dot>> ELSE PathNormalize(joined)

\* path.dirname of a normalized absolute path without trailing separator.
PathDirname(p) ==
  LET segs == SegsOf(p)
  IN IF segs = <<>> THEN <<Sep>> ELSE AbsPath(SubSeq(segs, 1, Len(segs) - 1))

\* p names the directory root or something below it (by segments, not by
\* string prefix): the meaning of "inside the root".
IsPrefixSeq(a, b) == Len(a) <= Len(b) /\ SubSeq(b, 1, Len(a)) = a

Inside(root, p) == IsAbsolute(p) /\ IsPrefixSeq(SegsOf(root), SegsOf(p))

\* ---------------------------------------------------------------- state
VARIABLES
  cwd,              \* process.cwd(), an absolute normalized path
  envRoots,         \* NOCTUNE_STUDIO_ALLOWED_ROOTS, split at ","
  last,             \* the last call made to the core: its name, inputs and outcome
  now,              \* Date.now(), in milliseconds
  ticks,            \* how often the clock has advanced
  onceTokens,       \* globalThis.__noctuneStudioOnceTokens: token -> record
  allowedSessions,  \* globalThis.__noctuneStudioAllowedSessions: id -> expiry
  files,            \* the file system: path -> content
  dirs,             \* the file system: the directories that exist
  spawned,          \* the worker processes spawn() was asked to start
  signals,          \* the signals process.kill() delivered or attempted
  issued,           \* the ids newId() has produced, as <<kind, id>>
  looked,           \* the once-tokens consumeOnceToken has found in the store
  chats,            \* the chat requests in flight: id -> closure of POST
  gated,            \* per once-token, the gated actions performed under it
  cursorRef,        \* the run page's cursorRef.current: <<>> for null, else <<n>>
  events,           \* the run page's events state
  firstCursor,      \* the cursor the page's first poll was answered with
  exited,           \* the pids of the spawned workers that have ended
  starts,           \* the calls of start in flight: id -> position and arguments
  deciders,         \* the operators at the approvals queue: id -> position
  setters           \* the calls of setAlwaysAllowed in flight: id -> position

\* The calls in flight across their awaits, and the ended workers.
asyncVars == <<exited, starts, deciders, setters>>
\* What no request handler of the studio changes.
envVars == <<cwd, envRoots, asyncVars>>
clockVars == <<now, ticks>>
ledgerVars == <<onceTokens, allowedSessions>>
fsVars == <<files, dirs>>
procVars == <<spawned, signals>>
ghostVars == <<issued, looked>>
handlerVars == <<chats, gated>>
pageVars == <<cursorRef, events, firstCursor>>

vars == <<envVars, pageVars, last, clockVars, ledgerVars, fsVars, procVars, ghostVars, handlerVars>>

\* ---------------------------------------------------------- path sandbox
ParentParent == <<".", ".", "/", ".", ".">>

getDefaultRepoRoot == PathResolveFrom(cwd, ParentParent)

\* The entries are trimmed, the empty ones dropped, the rest resolved; the
\* default root is added.  The list is only searched, so a set stands for it.
getAllowedRepoRoots ==
  LET entries == {Trim(envRoots[i]) : i \in DOMAIN envRoots} \ {<<>>}
  IN {PathResolveFrom(cwd, e) : e \in entries} \cup {getDefaultRepoRoot}

Ok(v) == [ok |-> TRUE, value |-> v]
Throw(e) == [ok |-> FALSE, error |-> e]

\* A resolver that checks nothing.
resolveRepoRootOrThrow_AcceptsAll(repoRoot) == Ok(PathResolveFrom(cwd, repoRoot))

resolveRepoRootOrThrow(repoRoot) ==
  LET rr == PathResolveFrom(cwd, repoRoot)
  IN IF \E base \in getAllowedRepoRoots :
          rr = base \/ StartsWith(rr, base \o <<Sep>>)
     THEN Ok(rr)
     ELSE Throw("repoRoot is not allowed")

resolvePathInRepoOrThrow(repoRoot, relOrAbsPath) ==
  LET rr == PathResolveFrom(cwd, repoRoot)
      p == PathResolveFrom(rr, relOrAbsPath)
  IN IF p = rr \/ StartsWith(p, rr \o <<Sep>>)
     THEN Ok(p)
     ELSE Throw("path escapes repoRoot")

\* ------------------------------------------------ paths of a run's files
runsDir(repoRoot) == PathJoin(<<repoRoot, <<".noctune_cache">>, <<"runs">> >>)

runDirOf(repoRoot, runId) ==
  PathJoin(<<repoRoot, <<".noctune_cache">>, <<"runs">>, runId>>)

stateDirOf(repoRoot, runId) == PathJoin(<<runDirOf(repoRoot, runId), <<"state">> >>)

fileListPath(repoRoot, runId) ==
  PathJoin(<<runDirOf(repoRoot, runId), <<"file_list.txt">> >>)

\* A stop request recorded in the run's state record.
stopFlagPath_InRunJson(repoRoot, runId) ==
  PathJoin(<<repoRoot, <<".noctune_cache">>, <<"runs">>, runId, <<"state">>,
             <<"run.json">> >>)

stopFlagPath(repoRoot, runId) ==
  PathJoin(<<repoRoot, <<".noctune_cache">>, <<"runs">>, runId, <<"state">>,
             <<"stop.flag">> >>)

eventsPath1(repoRoot, runId) ==
  PathJoin(<<repoRoot, <<".noctune_cache">>, <<"runs">>, runId, <<"events">>,
             <<"events.jsonl">> >>)

eventsPath2(repoRoot, runId) ==
  PathJoin(<<repoRoot, <<".noctune_cache">>, <<"runs">>, runId, <<"logs">>,
             <<"events.jsonl">> >>)

runJsonPath(repoRoot, runId) ==
  PathJoin(<<repoRoot, <<".noctune_cache">>, <<"runs">>, runId, <<"state">>,
             <<"run.json">> >>)

approvalsDir(repoRoot, runId) ==
  PathJoin(<<repoRoot, <<".noctune_cache">>, <<"runs">>, runId, <<"state">>,
             <<"approvals">> >>)

decisionPathOf(dir, approvalId) == PathJoin(<<dir, approvalId \o <<".decision">> >>)

\* p.replace(/\.json$/, '.decision')
ReplaceJsonSuffix(p) ==
  IF EndsWith(p, <<".json">>)
  THEN SubSeq(p, 1, Len(p) - 1) \o <<".decision">>
  ELSE p

\* ------------------------------- the paths each run operation touches
\* Each operator follows its function up to the first throw and yields the
\* paths handed to fs.mkdir, fs.writeFile, fs.stat, fs.readFile, fs.readdir
\* and spawn's cwd.  A directory listing yields the names in ListedNames.
GeneratedRunId == <<"1767225600_0a1b2c3d">>
ListedNames == {<<"a", ".json">>, <<"a", ".decision">>}

startPaths(repoRootRaw, runIdRaw, hasFileList) ==
  LET r == resolveRepoRootOrThrow(repoRootRaw)
      runId == IF Trim(runIdRaw) = <<>> THEN GeneratedRunId ELSE Trim(runIdRaw)
  IN IF ~r.ok THEN {}
     ELSE {stateDirOf(r.value, runId), r.value}
          \cup (IF hasFileList THEN {fileListPath(r.value, runId)} ELSE {})

stopPaths(repoRootRaw, runIdRaw) ==
  LET r == resolveRepoRootOrThrow(repoRootRaw)
      runId == Trim(runIdRaw)
  IN IF ~r.ok \/ runId = <<>> THEN {}
     ELSE {PathDirname(stopFlagPath(r.value, runId)), stopFlagPath(r.value, runId)}

tailPaths(repoRootRaw, runIdRaw) ==
  LET r == resolveRepoRootOrThrow(repoRootRaw)
      runId == Trim(runIdRaw)
  IN IF ~r.ok THEN {}
     ELSE {eventsPath1(r.value, runId), eventsPath2(r.value, runId)}

readRunStatePaths(repoRootRaw, runIdRaw) ==
  LET r == resolveRepoRootOrThrow(repoRootRaw)
  IN IF ~r.ok THEN {} ELSE {runJsonPath(r.value, Trim(runIdRaw))}

listApprovalPaths(repoRootRaw, runIdRaw) ==
  LET r == resolveRepoRootOrThrow(repoRootRaw)
      dir == approvalsDir(r.value, Trim(runIdRaw))
      requests == {n \in ListedNames : EndsWith(n, <<".json">>)}
  IN IF ~r.ok THEN {}
     ELSE {dir} \cup {PathJoin(<<dir, n>>) : n \in requests}
                \cup {ReplaceJsonSuffix(PathJoin(<<dir, n>>)) : n \in requests}

decidePaths(repoRootRaw, runIdRaw, approvalIdRaw) ==
  LET r == resolveRepoRootOrThrow(repoRootRaw)
      approvalId == Trim(approvalIdRaw)
      dir == approvalsDir(r.value, Trim(runIdRaw))
  IN IF ~r.ok \/ approvalId = <<>> THEN {}
     ELSE {dir, decisionPathOf(dir, approvalId)}

RunOps == {"start", "stop", "tail", "readRunState", "listPending",
           "listWithDecisions", "decide"}

runOpPaths(op, repoRootRaw, runIdRaw, approvalIdRaw, hasFileList) ==
  CASE op = "start" -> startPaths(repoRootRaw, runIdRaw, hasFileList)
    [] op = "stop" -> stopPaths(repoRootRaw, runIdRaw)
    [] op = "tail" -> tailPaths(repoRootRaw, runIdRaw)
    [] op = "readRunState" -> readRunStatePaths(repoRootRaw, runIdRaw)
    [] op = "listPending" -> listApprovalPaths(repoRootRaw, runIdRaw)
    [] op = "listWithDecisions" -> listApprovalPaths(repoRootRaw, runIdRaw)
    [] op = "decide" -> decidePaths(repoRootRaw, runIdRaw, approvalIdRaw)

\* ------------------------------------------- the sandbox under its inputs
PathChars == {"/", ".", "a"}
PathInputs == StrsUpTo(PathChars, MaxPathLen)

Cwds == {<<"/">>, <<"/", "a", "/", "a">>, <<"/", "a", "/", "a", "/", "a">>}
EnvChoices == {<<>>, << <<"/", "a", "/", "a">> >>, << <<" ", "a", " ">>, <<" ">> >>}

\* Identifiers a caller can send: up to MaxIdSegs segments.
IdSegs == {DotDot, <<"a">>}

RECURSIVE IdsUpTo(_)
IdsUpTo(n) ==
  IF n = 0 THEN {<<>>}
  ELSE LET shorter == IdsUpTo(n - 1)
       IN shorter \cup IdSegs \cup {s \o <<Sep>> \o g : s \in shorter \ {<<>>}, g \in IdSegs}

RunIdInputs == IdsUpTo(MaxIdSegs)
ApprovalIdInputs == IdsUpTo(1)

\* No call made yet.  The sandbox and the path computations are functions of
\* their inputs and the environment, so every call is made from this state.
None == [op |-> "none"]

\* The process before any request: empty ledger, nothing spawned or signalled.
InitProcess ==
  /\ last = None
  /\ now = 0
  /\ ticks = 0
  /\ onceTokens = <<>>
  /\ allowedSessions = <<>>
  /\ spawned = {}
  /\ signals = {}
  /\ issued = {}
  /\ looked = {}
  /\ chats = <<>>
  /\ gated = <<>>
  /\ cursorRef = <<>>
  /\ events = <<>>
  /\ firstCursor = <<>>
  /\ exited = {}
  /\ starts = <<>>
  /\ deciders = <<>>
  /\ setters = <<>>

InitPaths ==
  /\ cwd \in Cwds
  /\ envRoots \in EnvChoices
  /\ files = <<>>
  /\ dirs = {}
  /\ InitProcess

pathsFrame == <<envVars, pageVars, clockVars, ledgerVars, fsVars, procVars, ghostVars, handlerVars>>

CallResolveRepoRoot ==
  \E R \in PathInputs :
    /\ last = None
    /\ last' = [op |-> "resolveRepoRootOrThrow", repoRoot |-> R,
                out |-> resolveRepoRootOrThrow(R)]
    /\ UNCHANGED pathsFrame

\* Callers pass the root resolveRepoRootOrThrow returned.
CallResolvePathInRepo ==
  \E base \in getAllowedRepoRoots, P \in PathInputs :
    /\ last = None
    /\ resolveRepoRootOrThrow(base).ok
    /\ last' = [op |-> "resolvePathInRepoOrThrow",
                repoRoot |-> resolveRepoRootOrThrow(base).value, p |-> P,
                out |-> resolvePathInRepoOrThrow(resolveRepoRootOrThrow(base).value, P)]
    /\ UNCHANGED pathsFrame

CallRunOp ==
  \E op \in RunOps, base \in getAllowedRepoRoots \cup {<<"/", "a", "a">>},
     runId \in RunIdInputs, approvalId \in ApprovalIdInputs, hasFileList \in BOOLEAN :
    /\ last = None
    /\ last' = [op |-> op, repoRoot |-> base, runId |-> runId,
                approvalId |-> IF op = "decide" THEN approvalId ELSE <<>>,
                rootOk |-> resolveRepoRootOrThrow(base).ok,
                paths |-> runOpPaths(op, base, runId, approvalId, hasFileList)]
    /\ UNCHANGED pathsFrame

NextPaths == CallResolveRepoRoot \/ CallResolvePathInRepo \/ CallRunOp

SpecPaths == InitPaths /\ [][NextPaths]_vars

\* C4: resolveRepoRootOrThrow(R) succeeds, returning the resolved path, if
\* and only if the resolved R is an allowed root or lies below one.
C4_RootAcceptedIffInsideAllowed ==
  last.op = "resolveRepoRootOrThrow" =>
    LET rr == PathResolveFrom(cwd, last.repoRoot)
    IN /\ last.out.ok <=> \E base \in getAllowedRepoRoots : Inside(base, rr)
       /\ last.out.ok => last.out.value = rr

\* C5: resolvePathInRepoOrThrow(root, P) succeeds, returning the resolved
\* path, if and only if P resolves to the root or to something below it.
C5_PathAcceptedIffInsideRoot ==
  last.op = "resolvePathInRepoOrThrow" =>
    LET p == PathResolveFrom(last.repoRoot, last.p)
    IN /\ last.out.ok <=> Inside(last.repoRoot, p)
       /\ last.out.ok => last.out.value = p

\* C6: every path a run operation creates, writes or reads lies inside the
\* validated root, whatever run id and approval id the caller supplies.
C6_RunPathsInsideRoot ==
  (last.op \in RunOps /\ last.rootOk) =>
    \A p \in last.paths : Inside(PathResolveFrom(cwd, last.repoRoot), p)

\* ------------------------------------------------------ permission ledger
\* Ids (tokens, session ids, browser ids) are the random hex strings of
\* newId(); an id is a positive number here, NoId stands for null / absent
\* and EmptyId for the empty string.
MaxTicks == 2
NoId == -1
EmptyId == 0

OnceTtlMs == 2 * 60 * 1000
SessionTtlMs == 12 * 60 * 60 * 1000
TickSteps == {OnceTtlMs, SessionTtlMs}

STUDIO_BROWSER_ID_COOKIE == "noctune_studio_browser_id"
STUDIO_SESSION_ID_COOKIE == "noctune_studio_session_id"

TokenIds == {1, 2}
SessionIds == {1}
BrowserIds == {1, 2}

\* A value that passes `x && ...`: neither null nor the empty string.
Truthy(id) == id # NoId /\ id # EmptyId

MapSet(m, k, v) == [x \in DOMAIN m \cup {k} |-> IF x = k THEN v ELSE m[x]]
MapDel(m, k) == [x \in DOMAIN m \ {k} |-> m[x]]

\* newId(): an id of the kind that was never produced before.
FreshIds(kind, pool) == {i \in pool : <<kind, i>> \notin issued}

\* The store after issueOnceToken() drew `token`.
issueOnceToken(tokens, token, t) ==
  MapSet(tokens, token, [expiresAtMs |-> t + OnceTtlMs])

consumeOnceToken_KeepsToken(tokens, token, t) ==
  IF token \notin DOMAIN tokens THEN [ret |-> FALSE, tokens |-> tokens]
  ELSE [ret |-> ~(t > tokens[token].expiresAtMs), tokens |-> tokens]

consumeOnceToken(tokens, token, t) ==
  IF token \notin DOMAIN tokens THEN [ret |-> FALSE, tokens |-> tokens]
  ELSE [ret |-> ~(t > tokens[token].expiresAtMs), tokens |-> MapDel(tokens, token)]

allowSession(sessions, sessionId, t) == MapSet(sessions, sessionId, t + SessionTtlMs)

\* A read that, finding the grant expired, clears every expired grant.
isSessionAllowed_Sweeps(sessions, sessionId, t) ==
  IF sessionId \notin DOMAIN sessions THEN [ret |-> FALSE, sessions |-> sessions]
  ELSE IF t > sessions[sessionId]
       THEN [ret |-> FALSE,
             sessions |-> [x \in {y \in DOMAIN sessions : t <= sessions[y]} |-> sessions[x]]]
       ELSE [ret |-> TRUE, sessions |-> sessions]

isSessionAllowed(sessions, sessionId, t) ==
  IF sessionId \notin DOMAIN sessions \/ sessions[sessionId] = 0
  THEN [ret |-> FALSE, sessions |-> sessions]
  ELSE IF t > sessions[sessionId]
       THEN [ret |-> FALSE, sessions |-> MapDel(sessions, sessionId)]
       ELSE [ret |-> TRUE, sessions |-> sessions]

allowFilePath(repoRoot) ==
  PathJoin(<<repoRoot, <<".noctune_cache">>, <<"studio_allow.json">> >>)

\* File contents.  A JSON document is a record with its kind; Garbage is any
\* text JSON.parse rejects.
Garbage == [kind |-> "garbage"]
AllowDoc(browsers) == [kind |-> "allow", browsers |-> browsers]

\* JSON.parse of the allow document, {} when it is missing or unparsable or
\* not an object with a browsers object.
BrowsersOf(fs, p) ==
  IF p \in DOMAIN fs /\ fs[p].kind = "allow" THEN fs[p].browsers ELSE <<>>

\* All the directories mkdir(p, {recursive: true}) makes sure exist.
Mkdirp(ds, p) ==
  LET segs == SegsOf(p)
  IN ds \cup {AbsPath(SubSeq(segs, 1, k)) : k \in 0 .. Len(segs)}

\* The file system after setAlwaysAllowed(repoRoot, browserId), or a throw.
setAlwaysAllowed(fs, ds, repoRoot, browserId) ==
  LET r == resolveRepoRootOrThrow(repoRoot)
      p == allowFilePath(r.value)
  IN IF ~r.ok THEN [ok |-> FALSE, files |-> fs, dirs |-> ds]
     ELSE [ok |-> TRUE,
           files |-> MapSet(fs, p, AllowDoc(MapSet(BrowsersOf(fs, p), browserId, TRUE))),
           dirs |-> Mkdirp(ds, PathDirname(p))]

\* An answer that looks at the document, not at the browser's entry.
isAlwaysAllowed_AnyGrant(fs, repoRoot, browserId) ==
  LET r == resolveRepoRootOrThrow(repoRoot)
      b == BrowsersOf(fs, allowFilePath(r.value))
  IN IF ~r.ok THEN Throw(r.error) ELSE Ok(\E any \in DOMAIN b : b[any])

\* The root is resolved outside the try block: a root that is not allowed
\* makes the call throw, a missing or unparsable document gives false.
isAlwaysAllowed(fs, repoRoot, browserId) ==
  LET r == resolveRepoRootOrThrow(repoRoot)
      b == BrowsersOf(fs, allowFilePath(r.value))
  IN IF ~r.ok THEN Throw(r.error)
     ELSE Ok(browserId \in DOMAIN b /\ b[browserId])

\* A cookie header is the sequence of its name / value pairs; a null or
\* empty header has none.  The values are hex ids, which decodeURIComponent
\* leaves as they are.
getCookie(header, name) ==
  LET hits == {i \in DOMAIN header : header[i][1] = name}
  IN IF hits = {} THEN NoId
     ELSE header[CHOOSE i \in hits : \A j \in hits : i <= j][2]

AllowResult(allowed, mode, tokens, sessions, consulted) ==
  [threw |-> FALSE, allowed |-> allowed, mode |-> mode, tokens |-> tokens,
   sessions |-> sessions, consulted |-> consulted]

\* The result of computeAllowWrite with the ledger it leaves behind and the
\* tiers it consulted, in order.
computeAllowWrite_SessionFirst(repoRoot, allowToken, cookieHeader) ==
  LET sessionId == getCookie(cookieHeader, STUDIO_SESSION_ID_COOKIE)
      s == IF Truthy(sessionId) THEN isSessionAllowed(allowedSessions, sessionId, now)
           ELSE [ret |-> FALSE, sessions |-> allowedSessions]
      c == IF Truthy(allowToken) THEN consumeOnceToken(onceTokens, allowToken, now)
           ELSE [ret |-> FALSE, tokens |-> onceTokens]
  IN IF s.ret THEN AllowResult(TRUE, "session", onceTokens, s.sessions, <<"session">>)
     ELSE IF c.ret THEN AllowResult(TRUE, "once", c.tokens, s.sessions, <<"session", "once">>)
     ELSE AllowResult(FALSE, "none", c.tokens, s.sessions, <<"session", "once">>)

computeAllowWrite(repoRoot, allowToken, cookieHeader) ==
  LET c == IF Truthy(allowToken) THEN consumeOnceToken(onceTokens, allowToken, now)
           ELSE [ret |-> FALSE, tokens |-> onceTokens]
      sessionId == getCookie(cookieHeader, STUDIO_SESSION_ID_COOKIE)
      s == IF Truthy(sessionId) THEN isSessionAllowed(allowedSessions, sessionId, now)
           ELSE [ret |-> FALSE, sessions |-> allowedSessions]
      browserId == getCookie(cookieHeader, STUDIO_BROWSER_ID_COOKIE)
      a == IF Truthy(browserId) THEN isAlwaysAllowed(files, repoRoot, browserId)
           ELSE Ok(FALSE)
  IN IF c.ret
     THEN AllowResult(TRUE, "once", c.tokens, allowedSessions, <<"once">>)
     ELSE IF s.ret
     THEN AllowResult(TRUE, "session", c.tokens, s.sessions, <<"once", "session">>)
     ELSE IF ~a.ok
     THEN [threw |-> TRUE, allowed |-> FALSE, mode |-> "threw", tokens |-> c.tokens,
           sessions |-> s.sessions, consulted |-> <<"once", "session", "always">>]
     ELSE IF a.value
     THEN AllowResult(TRUE, "always", c.tokens, s.sessions, <<"once", "session", "always">>)
     ELSE AllowResult(FALSE, "none", c.tokens, s.sessions, <<"once", "session", "always">>)

\* ------------------------------------------- the ledger under its callers
\* One installation: the server runs in /a/a/a, so the default root /a is
\* the only allowed root; /b is a root outside the allow-list.
ServerCwd == <<"/", "a", "/", "a", "/", "a">>
RootA == <<"/", "a">>
RootB == <<"/", "b">>
RootInputs == {RootA, RootB}

CookieHeaders ==
  {(IF s = NoId THEN <<>> ELSE << <<STUDIO_SESSION_ID_COOKIE, s>> >>)
     \o (IF b = NoId THEN <<>> ELSE << <<STUDIO_BROWSER_ID_COOKIE, b>> >>) :
   s \in SessionIds \cup {NoId}, b \in BrowserIds \cup {NoId}}

TokenInputs == TokenIds \cup {NoId}

\* The allow document a previous process lifetime (or an administrator's
\* edit) left under the root.
InitialAllowDocs ==
  {<<>>,
   [p \in {allowFilePath(RootA)} |-> AllowDoc([b \in {1, 2} |-> b = 2])]}

InitServer ==
  /\ cwd = ServerCwd
  /\ envRoots = <<>>
  /\ files \in InitialAllowDocs
  /\ dirs = Mkdirp(Mkdirp({}, ServerCwd), PathDirname(allowFilePath(RootA)))
  /\ InitProcess

\* The ghost record of what consumeOnceToken was asked and answered.
LookedAfter(token) == IF token \in DOMAIN onceTokens THEN looked \cup {token} ELSE looked
\* The ledger is driven by its callers; an evaluation is looked at as it
\* returns, so nothing follows it.
Evaluated == last.op = "computeAllowWrite"

Tick ==
  /\ ~Evaluated
  /\ ticks < MaxTicks
  /\ \E d \in TickSteps : now' = now + d
  /\ ticks' = ticks + 1
  /\ last' = [op |-> "tick"]
  /\ UNCHANGED <<envVars, pageVars, ledgerVars, fsVars, procVars, ghostVars, handlerVars>>

CallIssueOnceToken ==
  \E token \in FreshIds("token", TokenIds) :
    /\ ~Evaluated
    /\ onceTokens' = issueOnceToken(onceTokens, token, now)
    /\ issued' = issued \cup {<<"token", token>>}
    /\ last' = [op |-> "issueOnceToken"]
    /\ UNCHANGED <<envVars, pageVars, clockVars, allowedSessions, fsVars, procVars, looked,
                   handlerVars>>

\* Any token may be presented, in the store or not; the call records whether
\* this is the first time the store held the token at a lookup and whether
\* the token's record had expired.
CallConsumeOnceToken ==
  \E token \in TokenIds :
    LET r == consumeOnceToken(onceTokens, token, now)
    IN /\ ~Evaluated
       /\ onceTokens' = r.tokens
       /\ looked' = LookedAfter(token)
       /\ last' = [op |-> "consumeOnceToken", token |-> token, ret |-> r.ret,
                   wasIssued |-> <<"token", token>> \in issued,
                   first |-> token \notin looked,
                   expired |-> token \in DOMAIN onceTokens
                               /\ now > onceTokens[token].expiresAtMs]
       /\ UNCHANGED <<envVars, pageVars, clockVars, allowedSessions, fsVars, procVars, issued,
                      handlerVars>>

CallAllowSession ==
  \E sessionId \in FreshIds("session", SessionIds) :
    /\ ~Evaluated
    /\ allowedSessions' = allowSession(allowedSessions, sessionId, now)
    /\ issued' = issued \cup {<<"session", sessionId>>}
    /\ last' = [op |-> "allowSession"]
    /\ UNCHANGED <<envVars, pageVars, clockVars, onceTokens, fsVars, procVars, looked,
                   handlerVars>>

CallIsSessionAllowed ==
  \E sessionId \in SessionIds :
    LET r == isSessionAllowed(allowedSessions, sessionId, now)
    IN /\ ~Evaluated
       /\ allowedSessions' = r.sessions
       /\ last' = [op |-> "isSessionAllowed", sessionId |-> sessionId, ret |-> r.ret]
       /\ UNCHANGED <<envVars, pageVars, clockVars, onceTokens, fsVars, procVars, ghostVars,
                      handlerVars>>

\* computeAllowWrite on the ledger as it stands.  The call is recorded with
\* the ledger it found; what it leaves behind is in the state.
CallComputeAllowWrite ==
  \E repoRoot \in RootInputs, allowToken \in TokenInputs, cookieHeader \in CookieHeaders :
    LET r == computeAllowWrite(repoRoot, allowToken, cookieHeader)
    IN /\ ~Evaluated
       /\ onceTokens' = r.tokens
       /\ allowedSessions' = r.sessions
       /\ looked' = IF Truthy(allowToken) THEN LookedAfter(allowToken) ELSE looked
       /\ last' = [op |-> "computeAllowWrite", repoRoot |-> repoRoot,
                   allowToken |-> allowToken, cookieHeader |-> cookieHeader,
                   tokensBefore |-> onceTokens, sessionsBefore |-> allowedSessions,
                   threw |-> r.threw, allowed |-> r.allowed, mode |-> r.mode,
                   consulted |-> r.consulted]
       /\ UNCHANGED <<envVars, pageVars, clockVars, fsVars, procVars, issued, handlerVars>>

NextLedger ==
  \/ Tick
  \/ CallIssueOnceToken
  \/ CallConsumeOnceToken
  \/ CallAllowSession
  \/ CallIsSessionAllowed
  \/ CallComputeAllowWrite

SpecLedger == InitServer /\ [][NextLedger]_vars

\* C1: a consumeOnceToken call leaves the token out of the store; the first
\* lookup of an issued token returns true exactly when the token has not
\* expired, and every other lookup (a later one, or of a token never issued)
\* returns false, so no token is consumed successfully twice.
C1_TokenConsumedAtMostOnce ==
  last.op = "consumeOnceToken" =>
    /\ last.token \notin DOMAIN onceTokens
    /\ (last.wasIssued /\ last.first) => (last.ret <=> ~last.expired)
    /\ ~(last.wasIssued /\ last.first) => ~last.ret

\* A replay: an issued token that was consumed successfully is presented
\* again.
C1_Witness_Replay ==
  /\ last.op = "consumeOnceToken"
  /\ last.wasIssued
  /\ ~last.first
  /\ ~last.ret

\* What the three tiers hold for the request of the last evaluation, read
\* from the ledger the call found.
OnceMatches ==
  /\ Truthy(last.allowToken)
  /\ last.allowToken \in DOMAIN last.tokensBefore
  /\ now <= last.tokensBefore[last.allowToken].expiresAtMs

SessionMatches ==
  LET sessionId == getCookie(last.cookieHeader, STUDIO_SESSION_ID_COOKIE)
  IN /\ Truthy(sessionId)
     /\ sessionId \in DOMAIN last.sessionsBefore
     /\ now <= last.sessionsBefore[sessionId]

AlwaysMatches ==
  LET browserId == getCookie(last.cookieHeader, STUDIO_BROWSER_ID_COOKIE)
      b == BrowsersOf(files, allowFilePath(PathResolveFrom(cwd, last.repoRoot)))
  IN Truthy(browserId) /\ browserId \in DOMAIN b /\ b[browserId]

FirstMatch ==
  IF OnceMatches THEN "once"
  ELSE IF SessionMatches THEN "session"
  ELSE IF AlwaysMatches THEN "always"
  ELSE "none"

\* The root of the last evaluation is inside the allow-list.
RootAllowed == resolveRepoRootOrThrow(last.repoRoot).ok

\* The always tier is reached with a browser id to look up.
AlwaysConsulted ==
  /\ ~OnceMatches
  /\ ~SessionMatches
  /\ Truthy(getCookie(last.cookieHeader, STUDIO_BROWSER_ID_COOKIE))

TiersConsulted ==
  CASE FirstMatch = "once" -> <<"once">>
    [] FirstMatch = "session" -> <<"once", "session">>
    [] OTHER -> <<"once", "session", "always">>

\* C3 as stated: computeAllowWrite returns the first tier that matches in
\* the order once, session, always, and allowed = false with mode 'none'
\* when none does; the tiers are consulted in that order up to the match,
\* and a match of the once tier leaves the session grants as they were.
C3_FirstMatchingTier ==
  Evaluated =>
    /\ ~last.threw
    /\ last.mode = FirstMatch
    /\ last.allowed <=> FirstMatch # "none"
    /\ last.consulted = TiersConsulted
    /\ FirstMatch = "once" => allowedSessions = last.sessionsBefore

\* C3, amended: the same, except that an evaluation which reaches the always
\* tier with a browser id for a root outside the allow-list fails with the
\* root-not-allowed error instead of returning mode 'none'.
C3_FirstMatchingTierOrRootError ==
  Evaluated =>
    /\ last.threw <=> (AlwaysConsulted /\ ~RootAllowed)
    /\ ~last.threw => /\ last.mode = FirstMatch
                      /\ last.allowed <=> FirstMatch # "none"
    /\ last.consulted = TiersConsulted
    /\ FirstMatch = "once" => allowedSessions = last.sessionsBefore

\* A valid token and a live session grant are presented together: the once
\* tier wins and the session tier is not consulted.
C3_Witness_OnceBeforeSession ==
  /\ Evaluated
  /\ OnceMatches
  /\ SessionMatches
  /\ last.mode = "once"

\* ------------------------------------------------ run controller, repo fs
\* File contents besides the allow document: a text is the sequence of its
\* lines as split at "\n", a decision is the JSON object decideApproval
\* writes.
Text(lines) == [kind |-> "text", lines |-> lines]
StopText == Text(<<"stop", "">>)
Decision(approved, reason) == [kind |-> "decision", approved |-> approved, reason |-> reason]

NoPid == 0
FirstPid == 7
\* A live process of another user, which this process may not signal.
ForeignPids == {1}

\* Results of the operations that touch the file system and the processes:
\* the state they leave, and the error when they throw.
Done(fs, ds, sp, sg) ==
  [ok |-> TRUE, error |-> "", files |-> fs, dirs |-> ds, spawned |-> sp, signals |-> sg]
Fail(e, fs, ds, sp, sg) ==
  [ok |-> FALSE, error |-> e, files |-> fs, dirs |-> ds, spawned |-> sp, signals |-> sg]

\* fs.mkdir(p, {recursive: true}) rejects when a regular file stands at p or
\* at a directory above it.
MkdirFails(fs, p) ==
  LET segs == SegsOf(p)
  IN \E k \in 1 .. Len(segs) : AbsPath(SubSeq(segs, 1, k)) \in DOMAIN fs

\* fs.writeFile(p, ...) rejects when the directory of p does not exist or p
\* is itself a directory.
WriteFails(ds, p) == PathDirname(p) \notin ds \/ p \in ds

\* `${y}${mo}${d}_${h}${mi}${s}_${rand}`: the UTC second of `t` and the hex of
\* the four random bytes.
generateRunId(t, rand) == <<ToString(t \div 1000) \o "_" \o rand>>

\* The pid the system gives the next child process.
NextPid(sp) == FirstPid + Cardinality(sp)

\* The workers that are still running.
LivePids(sp, ex) == {w.pid : w \in sp} \ ex

\* const runId = (opts.runId ?? '').trim() || generateRunId()
startRunId(runIdRaw, gen) == IF Trim(runIdRaw) = <<>> THEN gen ELSE Trim(runIdRaw)

\* A start that clears the run directory before it makes it.
startMkdir_Fresh(fs, ds, sp, sg, repoRootRaw, runIdRaw, gen) ==
  LET r == resolveRepoRootOrThrow(repoRootRaw)
      runDir == runDirOf(r.value, startRunId(runIdRaw, gen))
      stateDir == stateDirOf(r.value, startRunId(runIdRaw, gen))
      kept == {p \in DOMAIN fs : ~Inside(runDir, p)}
  IN IF ~r.ok THEN Fail(r.error, fs, ds, sp, sg)
     ELSE Done([p \in kept |-> fs[p]], Mkdirp(ds, stateDir), sp, sg)

\* startNoctuneRun up to and including the await of fs.mkdir.
startMkdir(fs, ds, sp, sg, repoRootRaw, runIdRaw, gen) ==
  LET r == resolveRepoRootOrThrow(repoRootRaw)
      stateDir == stateDirOf(r.value, startRunId(runIdRaw, gen))
  IN IF ~r.ok THEN Fail(r.error, fs, ds, sp, sg)
     ELSE IF MkdirFails(fs, stateDir) THEN Fail("mkdir failed", fs, ds, sp, sg)
     ELSE Done(fs, Mkdirp(ds, stateDir), sp, sg)

\* The await of fs.writeFile for a supplied, non-empty file list.
startWriteFileList(fs, ds, sp, sg, repoRootRaw, runIdRaw, gen, relPaths) ==
  LET r == resolveRepoRootOrThrow(repoRootRaw)
      fl == fileListPath(r.value, startRunId(runIdRaw, gen))
  IN IF relPaths = <<>> THEN Done(fs, ds, sp, sg)
     ELSE IF WriteFails(ds, fl) THEN Fail("writeFile failed", fs, ds, sp, sg)
     ELSE Done(MapSet(fs, fl, Text(relPaths \o <<"">>)), ds, sp, sg)

\* spawn(...), child.unref() and the return.
startSpawn(fs, ds, sp, sg, repoRootRaw, runIdRaw, gen, relPaths) ==
  LET r == resolveRepoRootOrThrow(repoRootRaw)
  IN Done(fs, ds,
          sp \cup {[cwd |-> r.value, runId |-> startRunId(runIdRaw, gen),
                    fileList |-> relPaths # <<>>, pid |-> NextPid(sp)]},
          sg)

\* The statement a call of start executes after the statement `pc`.
startAfter_SpawnFirst(pc, hasList) ==
  CASE pc = "mkdir" -> "spawn"
    [] pc = "spawn" -> IF hasList THEN "writeFile" ELSE "return"
    [] pc = "writeFile" -> "return"

startAfter(pc, hasList) ==
  CASE pc = "mkdir" -> IF hasList THEN "writeFile" ELSE "spawn"
    [] pc = "writeFile" -> "spawn"
    [] pc = "spawn" -> "return"

\* A whole call of start, run without interleaving.
startNoctuneRun(fs, ds, sp, sg, repoRootRaw, runIdRaw, relPaths, gen) ==
  LET m == startMkdir(fs, ds, sp, sg, repoRootRaw, runIdRaw, gen)
      w == startWriteFileList(m.files, m.dirs, sp, sg, repoRootRaw, runIdRaw, gen, relPaths)
  IN IF ~m.ok THEN m
     ELSE IF ~w.ok THEN w
     ELSE startSpawn(w.files, w.dirs, sp, sg, repoRootRaw, runIdRaw, gen, relPaths)

\* process.kill(pid, 'SIGTERM'): throws ESRCH when no such process runs and
\* EPERM when the process belongs to someone else.  As kill(2) does, a pid
\* of -1 signals every process the caller may signal, the serving process
\* among them, and a pid below -1 signals the process group -pid; a worker
\* is spawned detached and leads the group of its pid.
processKill(alive, pid) ==
  IF pid = -1 THEN Ok(pid)
  ELSE IF pid < -1 THEN (IF 0 - pid \in alive THEN Ok(pid) ELSE Throw("ESRCH"))
  ELSE IF pid \in ForeignPids THEN Throw("EPERM")
  ELSE IF pid \notin alive THEN Throw("ESRCH")
  ELSE Ok(pid)

\* The record of a call of process.kill.
Signal(pid, delivered) == [pid |-> pid, delivered |-> delivered]

stopNoctuneRun_KillThrows(fs, ds, sp, sg, alive, repoRootRaw, runIdRaw, pid) ==
  LET r == resolveRepoRootOrThrow(repoRootRaw)
      runId == Trim(runIdRaw)
      p == stopFlagPath(r.value, runId)
      k == processKill(alive, pid)
      ds1 == Mkdirp(ds, PathDirname(p))
  IN IF ~r.ok THEN Fail(r.error, fs, ds, sp, sg)
     ELSE IF runId = <<>> THEN Fail("runId is required", fs, ds, sp, sg)
     ELSE IF MkdirFails(fs, PathDirname(p)) THEN Fail("mkdir failed", fs, ds, sp, sg)
     ELSE IF WriteFails(ds1, p) THEN Fail("writeFile failed", fs, ds1, sp, sg)
     ELSE IF pid = NoPid THEN Done(MapSet(fs, p, StopText), ds1, sp, sg)
     ELSE IF ~k.ok
     THEN Fail(k.error, MapSet(fs, p, StopText), ds1, sp, sg \cup {Signal(pid, FALSE)})
     ELSE Done(MapSet(fs, p, StopText), ds1, sp, sg \cup {Signal(pid, TRUE)})

stopNoctuneRun_RefusesSecond(fs, ds, sp, sg, alive, repoRootRaw, runIdRaw, pid) ==
  LET r == resolveRepoRootOrThrow(repoRootRaw)
      runId == Trim(runIdRaw)
      p == stopFlagPath(r.value, runId)
      k == processKill(alive, pid)
      ds1 == Mkdirp(ds, PathDirname(p))
  IN IF ~r.ok THEN Fail(r.error, fs, ds, sp, sg)
     ELSE IF runId = <<>> THEN Fail("runId is required", fs, ds, sp, sg)
     ELSE IF MkdirFails(fs, PathDirname(p)) THEN Fail("mkdir failed", fs, ds, sp, sg)
     ELSE IF WriteFails(ds1, p) \/ p \in DOMAIN fs
     THEN Fail("writeFile failed", fs, ds1, sp, sg)
     ELSE IF pid = NoPid THEN Done(MapSet(fs, p, StopText), ds1, sp, sg)
     ELSE Done(MapSet(fs, p, StopText), ds1, sp, sg \cup {Signal(pid, k.ok)})

\* A stop that signals the process before it writes the sentinel.
stopNoctuneRun_SignalFirst(fs, ds, sp, sg, alive, repoRootRaw, runIdRaw, pid) ==
  LET r == resolveRepoRootOrThrow(repoRootRaw)
      runId == Trim(runIdRaw)
      p == stopFlagPath(r.value, runId)
      sg1 == IF pid = NoPid THEN sg ELSE sg \cup {Signal(pid, processKill(alive, pid).ok)}
      ds1 == Mkdirp(ds, PathDirname(p))
  IN IF ~r.ok THEN Fail(r.error, fs, ds, sp, sg)
     ELSE IF runId = <<>> THEN Fail("runId is required", fs, ds, sp, sg)
     ELSE IF MkdirFails(fs, PathDirname(p)) THEN Fail("mkdir failed", fs, ds, sp, sg1)
     ELSE IF WriteFails(ds1, p) THEN Fail("writeFile failed", fs, ds1, sp, sg1)
     ELSE Done(MapSet(fs, p, StopText), ds1, sp, sg1)

\* process.kill is attempted for every truthy pid; its throw is caught and
\* ignored.
stopNoctuneRun(fs, ds, sp, sg, alive, repoRootRaw, runIdRaw, pid) ==
  LET r == resolveRepoRootOrThrow(repoRootRaw)
      runId == Trim(runIdRaw)
      p == stopFlagPath(r.value, runId)
      k == processKill(alive, pid)
      ds1 == Mkdirp(ds, PathDirname(p))
  IN IF ~r.ok THEN Fail(r.error, fs, ds, sp, sg)
     ELSE IF runId = <<>> THEN Fail("runId is required", fs, ds, sp, sg)
     ELSE IF MkdirFails(fs, PathDirname(p)) THEN Fail("mkdir failed", fs, ds, sp, sg)
     ELSE IF WriteFails(ds1, p) THEN Fail("writeFile failed", fs, ds1, sp, sg)
     ELSE IF pid = NoPid THEN Done(MapSet(fs, p, StopText), ds1, sp, sg)
     ELSE IF ~k.ok
     THEN Done(MapSet(fs, p, StopText), ds1, sp, sg \cup {Signal(pid, FALSE)})
     ELSE Done(MapSet(fs, p, StopText), ds1, sp, sg \cup {Signal(pid, TRUE)})

decideApproval_Once(fs, ds, sp, sg, repoRootRaw, runIdRaw, approvalIdRaw, approved, reason) ==
  LET r == resolveRepoRootOrThrow(repoRootRaw)
      approvalId == Trim(approvalIdRaw)
      dir == approvalsDir(r.value, Trim(runIdRaw))
      decisionPath == decisionPathOf(dir, approvalId)
      ds1 == Mkdirp(ds, dir)
  IN IF ~r.ok THEN Fail(r.error, fs, ds, sp, sg)
     ELSE IF approvalId = <<>> THEN Fail("approvalId is required", fs, ds, sp, sg)
     ELSE IF MkdirFails(fs, dir) THEN Fail("mkdir failed", fs, ds, sp, sg)
     ELSE IF WriteFails(ds1, decisionPath) \/ decisionPath \in DOMAIN fs
     THEN Fail("writeFile failed", fs, ds1, sp, sg)
     ELSE Done(MapSet(fs, decisionPath, Decision(approved, reason)), ds1, sp, sg)

decideApproval(fs, ds, sp, sg, repoRootRaw, runIdRaw, approvalIdRaw, approved, reason) ==
  LET r == resolveRepoRootOrThrow(repoRootRaw)
      approvalId == Trim(approvalIdRaw)
      dir == approvalsDir(r.value, Trim(runIdRaw))
      decisionPath == decisionPathOf(dir, approvalId)
      ds1 == Mkdirp(ds, dir)
  IN IF ~r.ok THEN Fail(r.error, fs, ds, sp, sg)
     ELSE IF approvalId = <<>> THEN Fail("approvalId is required", fs, ds, sp, sg)
     ELSE IF MkdirFails(fs, dir) THEN Fail("mkdir failed", fs, ds, sp, sg)
     ELSE IF WriteFails(ds1, decisionPath) THEN Fail("writeFile failed", fs, ds1, sp, sg)
     ELSE Done(MapSet(fs, decisionPath, Decision(approved, reason)), ds1, sp, sg)

cacheDirOf(repoRoot) == PathJoin(<<repoRoot, <<".noctune_cache">> >>)

isWithinNoctuneCache(repoRoot, absPath) ==
  absPath = cacheDirOf(repoRoot) \/ StartsWith(absPath, cacheDirOf(repoRoot) \o <<Sep>>)

isSafeCachePath(repoRoot, relOrAbsPath) ==
  LET rr == PathResolveFrom(cwd, repoRoot)
  IN isWithinNoctuneCache(rr, PathResolveFrom(rr, relOrAbsPath))

\* path.relative(from, to) for a path `to` at or below `from`, the only case
\* backupFile meets after resolvePathInRepoOrThrow.
pathRelative(from, to) ==
  IF to = from THEN <<>>
  ELSE SubSeq(to, (IF from = <<Sep>> THEN 1 ELSE Len(from) + 1) + 1, Len(to))

\* new Date().toISOString() with ":" and "." replaced: one name per instant.
Stamp(t) == ToString(t)

\* The backup directory is made even when there is nothing to copy.
backupFile(fs, ds, repoRoot, absPath, t) ==
  LET dst == PathJoin(<<repoRoot, <<".noctune_cache">>, <<"studio_edits">>, <<"backups">>,
                        <<Stamp(t)>>, pathRelative(repoRoot, absPath)>>)
  IN IF isWithinNoctuneCache(repoRoot, absPath) THEN [files |-> fs, dirs |-> ds]
     ELSE [files |-> IF absPath \in DOMAIN fs THEN MapSet(fs, dst, fs[absPath]) ELSE fs,
           dirs |-> Mkdirp(ds, PathDirname(dst))]

\* A writer that copies the file after it has written it.
writeTextFile_BackupAfterWrite(fs, ds, sp, sg, repoRoot, relOrAbsPath, content, t) ==
  LET r == resolveRepoRootOrThrow(repoRoot)
      q == resolvePathInRepoOrThrow(r.value, relOrAbsPath)
      b == backupFile(MapSet(fs, q.value, content), Mkdirp(ds, PathDirname(q.value)),
                      r.value, q.value, t)
  IN IF ~r.ok THEN Fail(r.error, fs, ds, sp, sg)
     ELSE IF ~q.ok THEN Fail(q.error, fs, ds, sp, sg)
     ELSE Done(b.files, b.dirs, sp, sg)

writeTextFile(fs, ds, sp, sg, repoRoot, relOrAbsPath, content, t) ==
  LET r == resolveRepoRootOrThrow(repoRoot)
      q == resolvePathInRepoOrThrow(r.value, relOrAbsPath)
      b == backupFile(fs, Mkdirp(ds, PathDirname(q.value)), r.value, q.value, t)
  IN IF ~r.ok THEN Fail(r.error, fs, ds, sp, sg)
     ELSE IF ~q.ok THEN Fail(q.error, fs, ds, sp, sg)
     ELSE Done(MapSet(b.files, q.value, content), b.dirs, sp, sg)

Max(a, b) == IF a >= b THEN a ELSE b
Min(a, b) == IF a <= b THEN a ELSE b

\* The lines after the range startLine .. endLine is replaced, or the lines
\* unchanged when the range starts beyond the line after the last.
replacedLines(lines, startLine, endLine, repLines) ==
  LET st == Max(1, startLine)
      en == Max(st, endLine)
  IN IF st > Len(lines) + 1 THEN lines
     ELSE SubSeq(lines, 1, st - 1) \o repLines \o SubSeq(lines, en + 1, Len(lines))

replaceLines(fs, ds, sp, sg, repoRoot, relOrAbsPath, startLine, endLine, repLines, t) ==
  LET r == resolveRepoRootOrThrow(repoRoot)
      q == resolvePathInRepoOrThrow(r.value, relOrAbsPath)
      b == backupFile(fs, ds, r.value, q.value, t)
  IN IF ~r.ok THEN Fail(r.error, fs, ds, sp, sg)
     ELSE IF ~q.ok THEN Fail(q.error, fs, ds, sp, sg)
     ELSE IF q.value \notin DOMAIN fs THEN Fail("ENOENT", fs, ds, sp, sg)
     ELSE IF Max(1, startLine) > Len(fs[q.value].lines) + 1 THEN Done(fs, ds, sp, sg)
     ELSE Done(MapSet(b.files, q.value,
                      Text(replacedLines(fs[q.value].lines, startLine, endLine, repLines))),
               b.dirs, sp, sg)

\* ------------------------------------------------- HTTP handlers, chat
MaxToolCalls == 2

ChatIds == {1}
\* The token the allow route hands out; the other token of TokenIds is one
\* the server never issued.
StudioTokenIds == {1}
NewBrowserIds == {3}
RunA == <<"a">>
ApprovalA == <<"a">>
PidInputs == {NoPid, 7}

\* What a request carries: a token in the body or one cookie.
Credentials ==
  {[allowToken |-> t, cookieHeader |-> <<>>] : t \in TokenInputs}
    \cup {[allowToken |-> NoId, cookieHeader |-> h] : h \in {c \in CookieHeaders : Len(c) = 1}}

\* The paths the write tools are asked for: a source file of the repository
\* and the stop sentinel of run a, which lies inside .noctune_cache.
RepoFile == <<"a">>
SentinelFile ==
  <<".noctune_cache", "/", "runs", "/", "a", "/", "state", "/", "stop.flag">>
WritePaths == {RepoFile, SentinelFile}

GatedAfter(counts, mode, token) ==
  IF counts /\ mode = "once"
  THEN MapSet(gated, token, (IF token \in DOMAIN gated THEN gated[token] ELSE 0) + 1)
  ELSE gated

Outcome(op, perm, mode, error) == [op |-> op, perm |-> perm, mode |-> mode, error |-> error]

\* POST /api/studio/allow
AllowRoute ==
  \E repoRoot \in RootInputs, mode \in {"once", "session", "always"},
     cookieHeader \in {<<>>, << <<STUDIO_BROWSER_ID_COOKIE, 1>> >>} :
    LET r == resolveRepoRootOrThrow(repoRoot)
        cookie == getCookie(cookieHeader, STUDIO_BROWSER_ID_COOKIE)
    IN IF ~r.ok
       THEN /\ last' = Outcome("allow", "unasked", mode, r.error)
            /\ UNCHANGED <<envVars, pageVars, clockVars, ledgerVars, fsVars, procVars, ghostVars,
                           handlerVars>>
       ELSE /\ last' = Outcome("allow", "unasked", mode, "")
            /\ \/ /\ mode = "once"
                  /\ \E token \in FreshIds("token", StudioTokenIds) :
                       /\ onceTokens' = issueOnceToken(onceTokens, token, now)
                       /\ issued' = issued \cup {<<"token", token>>}
                  /\ UNCHANGED <<allowedSessions, fsVars>>
               \/ /\ mode = "session"
                  /\ \E sessionId \in FreshIds("session", SessionIds) :
                       /\ allowedSessions' = allowSession(allowedSessions, sessionId, now)
                       /\ issued' = issued \cup {<<"session", sessionId>>}
                  /\ UNCHANGED <<onceTokens, fsVars>>
               \/ /\ mode = "always"
                  /\ \E browserId \in (IF Truthy(cookie) THEN {cookie}
                                       ELSE FreshIds("browser", NewBrowserIds)) :
                       LET w == setAlwaysAllowed(files, dirs, r.value, browserId)
                       IN /\ files' = w.files
                          /\ dirs' = w.dirs
                          /\ issued' = IF Truthy(cookie) THEN issued
                                       ELSE issued \cup {<<"browser", browserId>>}
                  /\ UNCHANGED ledgerVars
            /\ UNCHANGED <<envVars, pageVars, clockVars, procVars, looked, handlerVars>>

\* A route that evaluates the permission and then runs `r`, the result of
\* the operation on the current state.
GatedRoute(op, repoRoot, cred, r) ==
  LET a == computeAllowWrite(repoRoot, cred.allowToken, cred.cookieHeader)
  IN /\ onceTokens' = a.tokens
     /\ allowedSessions' = a.sessions
     /\ looked' = IF Truthy(cred.allowToken) THEN LookedAfter(cred.allowToken) ELSE looked
     /\ IF a.threw
        THEN /\ last' = Outcome(op, "threw", a.mode, "repoRoot is not allowed")
             /\ UNCHANGED <<fsVars, procVars, gated>>
        ELSE IF ~a.allowed
        THEN /\ last' = Outcome(op, "denied", a.mode, "run_not_allowed")
             /\ UNCHANGED <<fsVars, procVars, gated>>
        ELSE /\ last' = Outcome(op, "allowed", a.mode, r.error)
             /\ files' = r.files
             /\ dirs' = r.dirs
             /\ spawned' = r.spawned
             /\ signals' = r.signals
             /\ gated' = GatedAfter(r.ok, a.mode, cred.allowToken)
     /\ UNCHANGED <<envVars, pageVars, clockVars, issued, chats>>

\* POST /api/studio/runs/[runId]/stop
StopRoute ==
  \E repoRoot \in RootInputs, cred \in Credentials, pid \in PidInputs :
    GatedRoute("stop", repoRoot, cred,
               stopNoctuneRun(files, dirs, spawned, signals, LivePids(spawned, exited), repoRoot,
                              RunA, pid))

\* POST /api/studio/runs/[runId]/approvals/[approvalId]
DecideRoute ==
  \E repoRoot \in RootInputs, cred \in Credentials, approved \in BOOLEAN :
    GatedRoute("decide", repoRoot, cred,
               decideApproval(files, dirs, spawned, signals, repoRoot, RunA, ApprovalA,
                              approved, ""))

\* POST /api/studio/chat up to the start of the stream.  The permission is
\* evaluated once; the tools of the request close over its result.
ChatPost ==
  \E id \in FreshIds("chat", ChatIds), repoRootRaw \in RootInputs, cred \in Credentials,
     hasModel \in BOOLEAN :
    LET r == resolveRepoRootOrThrow(repoRootRaw)
        a == computeAllowWrite(r.value, cred.allowToken, cred.cookieHeader)
    IN IF ~r.ok
       THEN /\ last' = Outcome("chat", "unasked", "none", r.error)
            /\ UNCHANGED <<envVars, pageVars, clockVars, ledgerVars, fsVars, procVars, ghostVars,
                           handlerVars>>
       ELSE /\ onceTokens' = a.tokens
            /\ allowedSessions' = a.sessions
            /\ looked' = IF Truthy(cred.allowToken) THEN LookedAfter(cred.allowToken)
                         ELSE looked
            /\ last' = Outcome("chat", IF a.allowed THEN "allowed" ELSE "denied", a.mode,
                               IF hasModel THEN "" ELSE "Missing model")
            /\ chats' = IF a.threw \/ ~hasModel THEN chats
                        ELSE MapSet(chats, id,
                                    [repoRoot |-> r.value, allowed |-> a.allowed,
                                     mode |-> a.mode, allowToken |-> cred.allowToken,
                                     calls |-> 0])
            /\ issued' = IF a.threw \/ ~hasModel THEN issued
                         ELSE issued \cup {<<"chat", id>>}
            /\ UNCHANGED <<envVars, pageVars, clockVars, fsVars, procVars, gated>>

\* A tool call of the model in a streaming chat: `r` is the result of the
\* tool's operation on the current state, `passes` the tool's gate, `counts`
\* whether the call is a gated action.  A throw of the operation becomes a
\* tool error and leaves the state as it is.
ToolCall(id, op, passes, deniedCode, counts, r) ==
  LET c == chats[id]
      perm == IF c.allowed THEN "allowed" ELSE "denied"
  IN /\ c.calls < MaxToolCalls
     /\ chats' = [chats EXCEPT ![id].calls = @ + 1]
     /\ IF ~passes
        THEN /\ last' = Outcome(op, perm, c.mode, deniedCode)
             /\ UNCHANGED <<fsVars, procVars, gated>>
        ELSE /\ last' = Outcome(op, perm, c.mode, r.error)
             /\ files' = r.files
             /\ dirs' = r.dirs
             /\ spawned' = r.spawned
             /\ signals' = r.signals
             /\ gated' = GatedAfter(r.ok /\ counts, c.mode, c.allowToken)
     /\ UNCHANGED <<envVars, pageVars, clockVars, ledgerVars, ghostVars>>

writeFileTool ==
  \E id \in DOMAIN chats, p \in WritePaths :
    ToolCall(id, "writeFile",
             chats[id].allowed \/ isSafeCachePath(chats[id].repoRoot, p),
             "write_not_allowed", ~isSafeCachePath(chats[id].repoRoot, p),
             writeTextFile(files, dirs, spawned, signals, chats[id].repoRoot, p,
                           Text(<<"x">>), now))

replaceLinesTool ==
  \E id \in DOMAIN chats, p \in WritePaths :
    ToolCall(id, "replaceLines",
             chats[id].allowed \/ isSafeCachePath(chats[id].repoRoot, p),
             "write_not_allowed", ~isSafeCachePath(chats[id].repoRoot, p),
             replaceLines(files, dirs, spawned, signals, chats[id].repoRoot, p, 1, 1,
                          <<"x">>, now))

noctuneStartTool ==
  \E id \in DOMAIN chats, relPaths \in {<<>>, <<"a">>} :
    ToolCall(id, "noctuneStart", chats[id].allowed, "run_not_allowed", TRUE,
             startNoctuneRun(files, dirs, spawned, signals, chats[id].repoRoot, <<>>,
                             relPaths, GeneratedRunId))

noctuneStopTool ==
  \E id \in DOMAIN chats, pid \in PidInputs :
    ToolCall(id, "noctuneStop", chats[id].allowed, "run_not_allowed", TRUE,
             stopNoctuneRun(files, dirs, spawned, signals, LivePids(spawned, exited),
                            chats[id].repoRoot, RunA, pid))

noctuneDecideTool ==
  \E id \in DOMAIN chats, approved \in BOOLEAN :
    ToolCall(id, "noctuneDecide", chats[id].allowed, "run_not_allowed", TRUE,
             decideApproval(files, dirs, spawned, signals, chats[id].repoRoot, RunA,
                            ApprovalA, approved, ""))

\* The stream of a chat request ends; its closure is dropped.
ChatEnd ==
  \E id \in DOMAIN chats :
    /\ chats' = MapDel(chats, id)
    /\ last' = Outcome("chatEnd", "unasked", "none", "")
    /\ UNCHANGED <<envVars, pageVars, clockVars, ledgerVars, fsVars, procVars, ghostVars, gated>>

NextStudio ==
  \/ AllowRoute
  \/ ChatPost
  \/ writeFileTool
  \/ replaceLinesTool
  \/ noctuneStartTool
  \/ noctuneStopTool
  \/ noctuneDecideTool
  \/ ChatEnd

SpecStudio == InitServer /\ [][NextStudio]_vars

\* The routes that act on a run, with the allow route that feeds them.
NextRoutes ==
  \/ AllowRoute
  \/ StopRoute
  \/ DecideRoute

SpecRoutes == InitServer /\ [][NextRoutes]_vars

\* C2: no once-token stands behind more than one gated action (a file write
\* outside the cache, a run start, a run stop, an approval decision), within
\* one chat request or across requests.
C2_OnceTokenOneGatedAction ==
  \A token \in DOMAIN gated : gated[token] <= 1

RunGatedOps == {"stop", "decide", "noctuneStart", "noctuneStop", "noctuneDecide"}
WriteGatedOps == {"writeFile", "replaceLines"}

\* The stop sentinels and the decision files among the files.
SentinelsAndDecisions(fs) ==
  LET ps == {q \in DOMAIN fs : EndsWith(q, <<"stop.flag">>) \/ EndsWith(q, <<".decision">>)}
  IN [q \in ps |-> fs[q]]

\* C7: a handler or tool that runs under a not-allowed evaluation answers
\* run_not_allowed (write_not_allowed for the write tools) and spawns no
\* process, sends no signal, and writes no stop sentinel and no decision.
C7_DeniedDoesNothing ==
  [][(last'.op \in RunGatedOps \cup WriteGatedOps /\ last'.perm = "denied") =>
       /\ last'.op \in RunGatedOps => last'.error = "run_not_allowed"
       /\ last'.op \in WriteGatedOps => last'.error = "write_not_allowed"
       /\ spawned' = spawned
       /\ signals' = signals
       /\ SentinelsAndDecisions(files') = SentinelsAndDecisions(files)]_vars

\* ------------------------------------------------------------ event tail
MaxLines == 3

\* A number that may be null or absent: <<>> for null, <<n>> for n.
Null == <<>>
Num(n) == <<n>>

\* The event log: the lines the worker has written, each ended by "\n".  A
\* line holds a JSON value (the event with sequence number i), text that
\* JSON.parse rejects, or nothing.
Log(lines) == [kind |-> "log", lines |-> lines]
LineKinds == {"json", "bad", "blank"}
Line(kind, i) == [kind |-> kind, i |-> i]

\* raw.split('\n').filter(Boolean)
NonBlank(lines) == SelectSeq(lines, LAMBDA l : l.kind # "blank")

\* The values JSON.parse yields for the lines it accepts, in order.
ParsedEvents(lines) ==
  LET good == SelectSeq(lines, LAMBDA l : l.kind = "json")
  IN [k \in 1 .. Len(good) |-> good[k].i]

\* A limit with a floor and no ceiling.
tailLimit_NoCeiling(limit) == Max(1, IF limit = Null THEN 200 ELSE limit[1])

tailLimit(limit) == Max(1, Min(IF limit = Null THEN 200 ELSE limit[1], 500))

tailStart_FromZero(cursor, n, lim) ==
  IF cursor = Null THEN 0 ELSE Max(0, Min(cursor[1], n))

tailStart(cursor, n, lim) ==
  IF cursor = Null THEN Max(0, n - lim) ELSE Max(0, Min(cursor[1], n))

tailNoctuneEvents_PrimaryOnly(fs, ds, repoRootRaw, runIdRaw, cursor, limit) ==
  LET r == resolveRepoRootOrThrow(repoRootRaw)
      runId == Trim(runIdRaw)
      ep == eventsPath1(r.value, runId)
      lines == NonBlank(fs[ep].lines)
      n == Len(lines)
      lim == tailLimit(limit)
      start == tailStart(cursor, n, lim)
      end == Min(n, start + lim)
  IN IF ~r.ok THEN Throw(r.error)
     ELSE IF ep \notin DOMAIN fs
     THEN Ok([events |-> <<>>, cursor |-> 0, nextCursor |-> 0, path |-> ep])
     ELSE Ok([events |-> ParsedEvents(SubSeq(lines, start + 1, end)), cursor |-> start,
              nextCursor |-> end, path |-> ep])

\* fs.stat succeeds on a file or a directory; fs.readFile only on a file.
tailNoctuneEvents(fs, ds, repoRootRaw, runIdRaw, cursor, limit) ==
  LET r == resolveRepoRootOrThrow(repoRootRaw)
      runId == Trim(runIdRaw)
      p1 == eventsPath1(r.value, runId)
      p2 == eventsPath2(r.value, runId)
      ep == IF p1 \in DOMAIN fs \/ p1 \in ds THEN p1 ELSE p2
      lines == NonBlank(fs[ep].lines)
      n == Len(lines)
      lim == tailLimit(limit)
      start == tailStart(cursor, n, lim)
      end == Min(n, start + lim)
  IN IF ~r.ok THEN Throw(r.error)
     ELSE IF ep \notin DOMAIN fs
     THEN Ok([events |-> <<>>, cursor |-> 0, nextCursor |-> 0, path |-> ep])
     ELSE Ok([events |-> ParsedEvents(SubSeq(lines, start + 1, end)), cursor |-> start,
              nextCursor |-> end, path |-> ep])

\* GET /api/studio/runs/[runId]/events: the JSON body of the response.  The
\* cursor and limit parameters are decimal numerals of integers, which
\* Number() reads back as the same integers.
eventsRoute(fs, ds, repoRoot, runIdParam, cursor, limit) ==
  LET t == tailNoctuneEvents(fs, ds, repoRoot, Trim(runIdParam), cursor, limit)
  IN IF repoRoot = <<>> THEN [ok |-> FALSE, error |-> "repoRoot is required"]
     ELSE IF Trim(runIdParam) = <<>> THEN [ok |-> FALSE, error |-> "runId is required"]
     ELSE IF ~t.ok THEN [ok |-> FALSE, error |-> t.error]
     ELSE [ok |-> TRUE, events |-> t.value.events, cursor |-> t.value.cursor,
           nextCursor |-> t.value.nextCursor, path |-> t.value.path]

\* What pollEvents leaves in the page after the response j to a request
\* sent with cursor cur: the page replaces its events on the first poll.
pollResult_Replaces(cur, evs, j) ==
  IF ~j.ok THEN [cursorRef |-> cur, events |-> evs]
  ELSE [cursorRef |-> Num(j.nextCursor), events |-> j.events]

pollResult(cur, evs, j) ==
  IF ~j.ok THEN [cursorRef |-> cur, events |-> evs]
  ELSE [cursorRef |-> Num(j.nextCursor),
        events |-> IF cur = Null THEN j.events ELSE evs \o j.events]

\* ------------------------------------------ the log, its worker, its readers
\* Run a of root /a; the worker writes its log at one of the two places.
EventsLog1 == eventsPath1(RootA, RunA)
EventsLog2 == eventsPath2(RootA, RunA)

PagePollLimit == 200
PollLimits == {1, 2}
CursorInputs == {Null} \cup {Num(c) : c \in -1 .. MaxLines + 1}
LimitInputs == {Null} \cup {Num(l) : l \in {0, 1, 2, 501}}

InitTail ==
  /\ InitServer
  /\ files = <<>>

\* A direct call of tail is looked at as it returns; only the repeated call
\* on the unchanged log follows it.
Tailed == last.op \in {"tail", "tailAgain"}

\* The worker appends one complete line to its log, creating the log at the
\* place it chose with the first line.
WorkerAppend ==
  \E kind \in LineKinds, loc \in {EventsLog1, EventsLog2} :
    LET old == IF loc \in DOMAIN files THEN files[loc].lines ELSE <<>>
    IN /\ ~Tailed
       /\ \A p \in {EventsLog1, EventsLog2} : p \in DOMAIN files => p = loc
       /\ Len(old) < MaxLines
       /\ files' = MapSet(files, loc, Log(Append(old, Line(kind, Len(old) + 1))))
       /\ dirs' = Mkdirp(dirs, PathDirname(loc))
       /\ last' = [op |-> "append"]
       /\ UNCHANGED <<envVars, pageVars, clockVars, ledgerVars, procVars, ghostVars,
                      handlerVars>>

\* A client that polls the events route with the cursor it holds and keeps
\* what it is sent.
Poll(limit) ==
  \E j \in {eventsRoute(files, dirs, RootA, RunA, cursorRef, Num(limit))} :
    \E page \in {pollResult(cursorRef, events, j)} :
      /\ ~Tailed
      /\ cursorRef' = page.cursorRef
      /\ events' = page.events
      /\ firstCursor' = IF cursorRef = Null /\ j.ok THEN Num(j.cursor) ELSE firstCursor
      /\ last' = [op |-> "poll", cur |-> cursorRef, limit |-> limit,
                  got |-> IF j.ok THEN j.events ELSE <<>>]
      /\ UNCHANGED <<envVars, clockVars, ledgerVars, fsVars, procVars, ghostVars,
                     handlerVars>>

\* The run page's poll.
pollEvents == \E limit \in {PagePollLimit} : Poll(limit)

\* A polling client that asks for small batches.
PollSmall == \E limit \in PollLimits : Poll(limit)

CallTail ==
  \E cursor \in CursorInputs, limit \in LimitInputs :
    /\ ~Tailed
    /\ last' = [op |-> "tail", cursor |-> cursor, limit |-> limit,
                out |-> tailNoctuneEvents(files, dirs, RootA, RunA, cursor, limit)]
    /\ UNCHANGED <<envVars, pageVars, clockVars, ledgerVars, fsVars, procVars, ghostVars,
                   handlerVars>>

\* The call that follows a call without cursor, with the nextCursor it
\* returned, on the unchanged log.
CallTailAgain ==
  /\ last.op = "tail"
  /\ last.cursor = Null
  /\ last.out.ok
  /\ last' = [op |-> "tailAgain", cursor |-> Num(last.out.value.nextCursor),
              limit |-> last.limit, first |-> last.out.value,
              out |-> tailNoctuneEvents(files, dirs, RootA, RunA,
                                        Num(last.out.value.nextCursor), last.limit)]
  /\ UNCHANGED <<envVars, pageVars, clockVars, ledgerVars, fsVars, procVars, ghostVars,
                 handlerVars>>

NextTail ==
  \/ WorkerAppend
  \/ pollEvents
  \/ PollSmall
  \/ CallTail
  \/ CallTailAgain

SpecTail == InitTail /\ [][NextTail]_vars

\* The non-empty lines of the log as it stands; none when there is no log.
LogLines ==
  IF EventsLog1 \in DOMAIN files THEN NonBlank(files[EventsLog1].lines)
  ELSE IF EventsLog2 \in DOMAIN files THEN NonBlank(files[EventsLog2].lines)
  ELSE <<>>

\* The limit after clamping to 1 .. 500, 200 when none is given.
ClampedLimit(limit) ==
  IF limit = Null THEN 200
  ELSE IF limit[1] < 1 THEN 1
  ELSE IF limit[1] > 500 THEN 500
  ELSE limit[1]

\* C8: what a cursor-polling client has been sent, batch after batch, is the
\* events of the valid lines of the log from the first returned cursor up to
\* the cursor it holds, in log order, each once; and every poll moves the
\* cursor on by the lines it was behind, up to the limit.
C8_PolledBatchesAreTheLog ==
  /\ cursorRef # Null =>
       /\ firstCursor # Null
       /\ firstCursor[1] <= cursorRef[1]
       /\ cursorRef[1] <= Len(LogLines)
       /\ events = ParsedEvents(SubSeq(LogLines, firstCursor[1] + 1, cursorRef[1]))
  /\ (last.op = "poll" /\ last.cur # Null) =>
       cursorRef[1] = Min(Len(LogLines), last.cur[1] + ClampedLimit(Num(last.limit)))

\* A later poll brings a further batch to a client whose first poll started
\* past the head of the log.
C8_Witness_SecondBatch ==
  /\ last.op = "poll"
  /\ last.cur # Null
  /\ last.got # <<>>
  /\ firstCursor[1] > 0
  /\ Len(events) >= 2

\* C9: without a cursor, tail over a log of n non-empty lines answers
\* cursor = max(0, n - L), nextCursor = n and the events of the lines with
\* these indices; the call that follows with cursor = n on the unchanged log
\* answers no events and nextCursor = n.
C9_TailWithoutCursor ==
  LET n == Len(LogLines)
      from == Max(0, n - ClampedLimit(last.limit))
  IN /\ (last.op = "tail" /\ last.cursor = Null) =>
          /\ last.out.ok
          /\ last.out.value.cursor = from
          /\ last.out.value.nextCursor = n
          /\ last.out.value.events = ParsedEvents(SubSeq(LogLines, from + 1, n))
     /\ last.op = "tailAgain" =>
          /\ last.cursor = Num(n)
          /\ last.out.ok
          /\ last.out.value.events = <<>>
          /\ last.out.value.nextCursor = n

\* The limit cut the first answer short of the whole log, and the call was
\* repeated at its nextCursor.
C9_Witness_RecentLinesThenNothing ==
  /\ last.op = "tailAgain"
  /\ Len(LogLines) = MaxLines
  /\ last.first.cursor > 0
  /\ last.first.events # <<>>

\* C10: tail never fails on a line that does not parse, returns the events
\* of the valid lines around it, and does not count it toward the limit: a
\* call with limit L returns L events whenever L valid lines are available
\* from its start position.
C10_BadLinesNotCounted ==
  last.op = "tail" =>
    LET v == last.out.value
        available == ParsedEvents(SubSeq(LogLines, v.cursor + 1, Len(LogLines)))
        L == ClampedLimit(last.limit)
    IN /\ last.out.ok
       /\ v.events = ParsedEvents(SubSeq(LogLines, v.cursor + 1, v.nextCursor))
       /\ Len(available) >= L => Len(v.events) = L

\* ------------------------------------------------------ approval mailbox
\* An approval request as the worker writes it: a JSON object that names
\* its approval.  Garbage stands for a request that is not valid JSON.
Request(id) == [kind |-> "request", id |-> id]

Parsable(content) == content.kind # "garbage"

\* safeJsonParse: the parsed value, or null.
safeJsonParse(content) == IF Parsable(content) THEN Num(content) ELSE Null

\* fs.readdir(dir): the names of the files and directories in dir.
Readdir(fs, ds, dir) ==
  {SubSeq(p, Len(dir) + 2, Len(p)) :
     p \in {q \in (DOMAIN fs) \cup ds : q # dir /\ PathDirname(q) = dir}}

\* entries.sort(): the names in the order of their UTF-16 code units, for
\* the names the approvals directory of a run can hold.
NameOrder ==
  <<<<"a", ".decision">>, <<"a", ".json">>, <<"b", ".decision">>, <<"b", ".json">> >>

\* A listing that visits the names in descending order.
SortedEntries_Descending(names) ==
  [k \in 1 .. Len(SelectSeq(NameOrder, LAMBDA n : n \in names)) |->
     SelectSeq(NameOrder, LAMBDA n : n \in names)[Len(SelectSeq(NameOrder, LAMBDA n : n \in names)) + 1 - k]]

SortedEntries(names) == SelectSeq(NameOrder, LAMBDA n : n \in names)

\* name.replace(/\.json$/, '')
approvalIdOf(name) == SubSeq(name, 1, Len(name) - 1)

\* fs.readdir rejects for a missing directory and for a regular file.
listPendingApprovals_ThrowsOnMissing(fs, ds, repoRootRaw, runIdRaw) ==
  LET r == resolveRepoRootOrThrow(repoRootRaw)
      dir == approvalsDir(r.value, Trim(runIdRaw))
      entries == SortedEntries(Readdir(fs, ds, dir))
      pending == SelectSeq(entries, LAMBDA name :
                   LET p == PathJoin(<<dir, name>>)
                       decision == ReplaceJsonSuffix(p)
                   IN /\ EndsWith(name, <<".json">>)
                      /\ decision \notin DOMAIN fs /\ decision \notin ds
                      /\ p \in DOMAIN fs /\ Parsable(fs[p]))
  IN IF ~r.ok THEN Throw(r.error)
     ELSE IF dir \notin ds THEN Throw("ENOENT")
     ELSE Ok([approvals |-> [k \in 1 .. Len(pending) |-> fs[PathJoin(<<dir, pending[k]>>)]],
              dir |-> dir])

listPendingApprovals_KeepsDecided(fs, ds, repoRootRaw, runIdRaw) ==
  LET r == resolveRepoRootOrThrow(repoRootRaw)
      dir == approvalsDir(r.value, Trim(runIdRaw))
      entries == SortedEntries(Readdir(fs, ds, dir))
      pending == SelectSeq(entries, LAMBDA name :
                   LET p == PathJoin(<<dir, name>>)
                   IN /\ EndsWith(name, <<".json">>)
                      /\ p \in DOMAIN fs /\ Parsable(fs[p]))
  IN IF ~r.ok THEN Throw(r.error)
     ELSE IF dir \notin ds THEN Ok([approvals |-> <<>>, dir |-> dir])
     ELSE Ok([approvals |-> [k \in 1 .. Len(pending) |-> fs[PathJoin(<<dir, pending[k]>>)]],
              dir |-> dir])

listPendingApprovals(fs, ds, repoRootRaw, runIdRaw) ==
  LET r == resolveRepoRootOrThrow(repoRootRaw)
      dir == approvalsDir(r.value, Trim(runIdRaw))
      entries == SortedEntries(Readdir(fs, ds, dir))
      pending == SelectSeq(entries, LAMBDA name :
                   LET p == PathJoin(<<dir, name>>)
                       decision == ReplaceJsonSuffix(p)
                   IN /\ EndsWith(name, <<".json">>)
                      /\ decision \notin DOMAIN fs /\ decision \notin ds
                      /\ p \in DOMAIN fs /\ Parsable(fs[p]))
  IN IF ~r.ok THEN Throw(r.error)
     ELSE IF dir \notin ds THEN Ok([approvals |-> <<>>, dir |-> dir])
     ELSE Ok([approvals |-> [k \in 1 .. Len(pending) |-> fs[PathJoin(<<dir, pending[k]>>)]],
              dir |-> dir])

\* An entry that counts a decision only when the file parses.
ApprovalWithDecision_ParsedOnly(fs, dir, name) ==
  [approval_id |-> approvalIdOf(name),
   approval |-> IF PathJoin(<<dir, name>>) \in DOMAIN fs
                THEN safeJsonParse(fs[PathJoin(<<dir, name>>)]) ELSE Null,
   decided |-> /\ ReplaceJsonSuffix(PathJoin(<<dir, name>>)) \in DOMAIN fs
               /\ Parsable(fs[ReplaceJsonSuffix(PathJoin(<<dir, name>>))]),
   decision |-> Null,
   path |-> PathJoin(<<dir, name>>)]

\* One element of the list listApprovalsWithDecisions returns.
ApprovalWithDecision(fs, dir, name) ==
  LET p == PathJoin(<<dir, name>>)
      decisionPath == ReplaceJsonSuffix(p)
  IN [approval_id |-> approvalIdOf(name),
      approval |-> IF p \in DOMAIN fs THEN safeJsonParse(fs[p]) ELSE Null,
      decided |-> decisionPath \in DOMAIN fs,
      decision |-> IF decisionPath \notin DOMAIN fs THEN Null
                   ELSE IF Parsable(fs[decisionPath]) THEN Num(fs[decisionPath])
                   ELSE Num([kind |-> "raw"]),
      path |-> p]

listApprovalsWithDecisions(fs, ds, repoRootRaw, runIdRaw) ==
  LET r == resolveRepoRootOrThrow(repoRootRaw)
      dir == approvalsDir(r.value, Trim(runIdRaw))
      entries == SelectSeq(SortedEntries(Readdir(fs, ds, dir)),
                           LAMBDA name : EndsWith(name, <<".json">>))
  IN IF ~r.ok THEN Throw(r.error)
     ELSE IF dir \notin ds THEN Ok([approvals |-> <<>>, dir |-> dir])
     ELSE Ok([approvals |-> [k \in 1 .. Len(entries) |->
                               ApprovalWithDecision(fs, dir, entries[k])],
              dir |-> dir])

\* ------------------------------- the mailbox, the worker, the operators
\* Run a of root /a asks for the approvals a and b; run b has asked for
\* nothing yet.  Operator d approves when d is odd and rejects otherwise.
RunB == <<"b">>
ApprovalB == <<"b">>
MailIds == {ApprovalA, ApprovalB}
DeciderIds == {1, 2}
Verdict(d) == d % 2 = 1

requestPath(id) == PathJoin(<<approvalsDir(RootA, RunA), id \o <<".json">> >>)
decisionPath(id) == decisionPathOf(approvalsDir(RootA, RunA), id)

\* The approval ids a caller hands to decide.
DecideIdInputs == {<<>>, <<" ">>, ApprovalB, <<" ", "b", " ">>, <<"b", "/", "b">>}

InitMailbox ==
  /\ InitServer
  /\ files = <<>>

\* A direct call of the mailbox is looked at as it returns.
Asked == last.op \in {"decide", "listPending", "listWithDecisions"}

\* The worker asks for an approval: it makes the approvals directory and
\* writes the request, whole or broken.
WorkerRequest ==
  \E id \in MailIds, broken \in BOOLEAN :
    /\ ~Asked
    /\ requestPath(id) \notin DOMAIN files
    /\ id = ApprovalB => ~broken
    /\ files' = MapSet(files, requestPath(id), IF broken THEN Garbage ELSE Request(id))
    /\ dirs' = Mkdirp(dirs, approvalsDir(RootA, RunA))
    /\ last' = [op |-> "request", id |-> id]
    /\ UNCHANGED <<envVars, pageVars, clockVars, ledgerVars, procVars, ghostVars,
                   handlerVars>>

\* An operator loads the queue and finds approval a pending.
Observe ==
  \E d \in DeciderIds \ DOMAIN deciders :
    \E l \in {listPendingApprovals(files, dirs, RootA, RunA)} :
      /\ ~Asked
      /\ l.ok
      /\ \E k \in DOMAIN l.value.approvals : l.value.approvals[k] = Request(ApprovalA)
      /\ deciders' = MapSet(deciders, d, [pc |-> "observed", ok |-> FALSE, order |-> 0])
      /\ last' = [op |-> "observe", decider |-> d]
      /\ UNCHANGED <<cwd, envRoots, exited, starts, setters, pageVars, clockVars, ledgerVars, fsVars,
                     procVars, ghostVars, handlerVars>>

\* decideApproval up to and including the await of fs.mkdir.
DecideMkdir ==
  \E d \in DOMAIN deciders :
    /\ ~Asked
    /\ deciders[d].pc = "observed"
    /\ ~MkdirFails(files, approvalsDir(RootA, RunA))
    /\ dirs' = Mkdirp(dirs, approvalsDir(RootA, RunA))
    /\ deciders' = [deciders EXCEPT ![d].pc = "writeFile"]
    /\ last' = [op |-> "decideMkdir", decider |-> d]
    /\ UNCHANGED <<cwd, envRoots, exited, starts, setters, pageVars, clockVars, ledgerVars, files,
                   procVars, ghostVars, handlerVars>>

\* The await of fs.writeFile and the return of decideApproval.
DecideWrite ==
  \E d \in DOMAIN deciders :
    \E r \in {decideApproval(files, dirs, spawned, signals, RootA, RunA, ApprovalA,
                             Verdict(d), "")} :
      /\ ~Asked
      /\ deciders[d].pc = "writeFile"
      /\ files' = r.files
      /\ dirs' = r.dirs
      /\ deciders' = [deciders EXCEPT
                        ![d] = [pc |-> "returned", ok |-> r.ok,
                                order |-> 1 + Cardinality({e \in DOMAIN deciders :
                                                             deciders[e].pc = "returned"})]]
      /\ last' = [op |-> "decided", decider |-> d, id |-> ApprovalA,
                  approved |-> Verdict(d), ok |-> r.ok]
      /\ UNCHANGED <<cwd, envRoots, exited, starts, setters, pageVars, clockVars, ledgerVars,
                     procVars, ghostVars, handlerVars>>

\* A caller decides an approval it has not listed.
CallDecide ==
  \E approvalIdRaw \in DecideIdInputs, approved \in BOOLEAN, runIdRaw \in {RunA, RunB} :
    \E r \in {decideApproval(files, dirs, spawned, signals, RootA, runIdRaw, approvalIdRaw,
                             approved, "")} :
      /\ ~Asked
      /\ files' = r.files
      /\ dirs' = r.dirs
      /\ last' = [op |-> "decide", runId |-> runIdRaw, approvalId |-> approvalIdRaw,
                  approved |-> approved, ok |-> r.ok, error |-> r.error,
                  filesBefore |-> files, dirsBefore |-> dirs]
      /\ UNCHANGED <<envVars, pageVars, clockVars, ledgerVars, procVars, ghostVars,
                     handlerVars>>

CallListPending ==
  \E repoRoot \in RootInputs, runIdRaw \in {RunA, RunB} :
    /\ ~Asked
    /\ last' = [op |-> "listPending", repoRoot |-> repoRoot, runId |-> runIdRaw,
                filesBefore |-> files, dirsBefore |-> dirs,
                out |-> listPendingApprovals(files, dirs, repoRoot, runIdRaw)]
    /\ UNCHANGED <<envVars, pageVars, clockVars, ledgerVars, fsVars, procVars, ghostVars,
                   handlerVars>>

CallListWithDecisions ==
  \E repoRoot \in RootInputs, runIdRaw \in {RunA, RunB} :
    /\ ~Asked
    /\ last' = [op |-> "listWithDecisions", repoRoot |-> repoRoot, runId |-> runIdRaw,
                filesBefore |-> files, dirsBefore |-> dirs,
                out |-> listApprovalsWithDecisions(files, dirs, repoRoot, runIdRaw)]
    /\ UNCHANGED <<envVars, pageVars, clockVars, ledgerVars, fsVars, procVars, ghostVars,
                   handlerVars>>

NextMailbox ==
  \/ WorkerRequest
  \/ Observe
  \/ DecideMkdir
  \/ DecideWrite
  \/ CallDecide
  \/ CallListPending
  \/ CallListWithDecisions

SpecMailbox == InitMailbox /\ [][NextMailbox]_vars

\* The queue of run a as the two listings return it in the current state.
Pending == listPendingApprovals(files, dirs, RootA, RunA).value.approvals
WithDecisions == listApprovalsWithDecisions(files, dirs, RootA, RunA).value.approvals

\* listPending includes approval id.
ListedPending(id) == \E k \in DOMAIN Pending : Pending[k] = Request(id)

\* listWithDecisions reports approval id decided with the verdict v.
ReportedDecided(id, v) ==
  \E k \in DOMAIN WithDecisions :
    /\ WithDecisions[k].approval_id = id
    /\ WithDecisions[k].decided
    /\ WithDecisions[k].decision = Num(Decision(v, ""))

\* After decide(a, approved=v) has returned, a is no longer pending and is
\* reported decided with v.
DecidedIsReported ==
  (last.op = "decided" /\ last.ok) =>
    /\ ~ListedPending(last.id)
    /\ ReportedDecided(last.id, last.approved)

\* C12: for every approval id whose request file exists, listPending
\* includes it exactly while no decision file exists; after decide(a, v)
\* returns, listPending no longer includes a and listWithDecisions reports a
\* decided with approved = v.
C12_PendingUntilDecided ==
  /\ \A id \in MailIds :
       requestPath(id) \in DOMAIN files =>
         (ListedPending(id) <=> decisionPath(id) \notin DOMAIN files)
  /\ DecidedIsReported

\* C12 (amended): the same for every approval id whose request file exists
\* and holds valid JSON; a request that does not parse is never listed as
\* pending.
C12_ParsablePendingUntilDecided ==
  /\ \A id \in MailIds :
       requestPath(id) \in DOMAIN files =>
         (ListedPending(id) <=>
            (Parsable(files[requestPath(id)]) /\ decisionPath(id) \notin DOMAIN files))
  /\ DecidedIsReported

\* Approval a has just been decided while the request b is still pending.
C12_Witness_DecidedAndStillPending ==
  /\ last.op = "decided" /\ last.ok
  /\ ~ListedPending(ApprovalA)
  /\ ReportedDecided(ApprovalA, last.approved)
  /\ ListedPending(ApprovalB)

\* The operators whose decide has returned, and the one that wrote last.
Returned == {d \in DOMAIN deciders : deciders[d].pc = "returned"}
LastWriter == CHOOSE d \in Returned : \A e \in Returned : deciders[e].order <= deciders[d].order

\* C13: operators that both saw approval a pending and both decide, with
\* different verdicts, all get ok=true; the decision file holds the verdict
\* of the write that happened last; decide never fails because a decision
\* file exists already.
C13_LastDecisionWins ==
  /\ \A d \in Returned : deciders[d].ok
  /\ Returned # {} =>
       /\ decisionPath(ApprovalA) \in DOMAIN files
       /\ files[decisionPath(ApprovalA)] = Decision(Verdict(LastWriter), "")

\* Both operators have decided, the one that approves first: the file holds
\* the rejection.
C13_Witness_BothDecided ==
  /\ Returned = DeciderIds
  /\ LastWriter = 2
  /\ deciders[1].ok /\ deciders[2].ok
  /\ files[decisionPath(ApprovalA)] = Decision(FALSE, "")

\* C14: decide with a non-empty approval id succeeds and writes
\* <approvalId>.decision, with or without a request file and with or without
\* the approvals directory; an empty or whitespace-only approval id is
\* rejected and nothing is written.
C14_DecideWithoutRequest ==
  last.op = "decide" =>
    IF Trim(last.approvalId) = <<>>
    THEN /\ ~last.ok
         /\ last.error = "approvalId is required"
         /\ files = last.filesBefore
         /\ dirs = last.dirsBefore
    ELSE /\ last.ok
         /\ decisionPathOf(approvalsDir(RootA, last.runId), Trim(last.approvalId))
              \in DOMAIN files
         /\ files[decisionPathOf(approvalsDir(RootA, last.runId), Trim(last.approvalId))]
              = Decision(last.approved, "")

\* C15: on a run whose approvals directory does not exist, listPending and
\* listWithDecisions return an empty list without failing, and the
\* directory still does not exist afterwards.
C15_MissingDirectoryListsEmpty ==
  (/\ last.op \in {"listPending", "listWithDecisions"}
   /\ resolveRepoRootOrThrow(last.repoRoot).ok
   /\ approvalsDir(RootA, last.runId) \notin last.dirsBefore) =>
    /\ last.out.ok
    /\ last.out.value.approvals = <<>>
    /\ approvalsDir(RootA, last.runId) \notin dirs
    /\ files = last.filesBefore

\* Run b, which has no approvals directory, was listed.
C15_Witness_ListedRunWithoutDirectory ==
  /\ last.op \in {"listPending", "listWithDecisions"}
  /\ last.repoRoot = RootA
  /\ last.runId = RunB
  /\ approvalsDir(RootA, RunB) \notin dirs
  /\ last.out.ok
  /\ last.out.value.approvals = <<>>

\* --------------------------------------------- stopping a run's worker
MaxWorkers == 2

\* The pids a caller hands to stop: none, a process of another user, and
\* the pids of workers, started or not, running or ended.
StopPids == {NoPid} \cup ForeignPids \cup {FirstPid + k : k \in 0 .. MaxWorkers - 1}
StopRunIds == {RunA, <<" ", "a">>, <<>>}

StopFlagA == stopFlagPath(RootA, RunA)

InitStop ==
  /\ InitServer
  /\ files = <<>>

\* A worker is started for run a.
CallStart ==
  \E r \in {startNoctuneRun(files, dirs, spawned, signals, RootA, RunA, <<>>,
                            GeneratedRunId)} :
    /\ Cardinality(spawned) < MaxWorkers
    /\ files' = r.files
    /\ dirs' = r.dirs
    /\ spawned' = r.spawned
    /\ signals' = r.signals
    /\ last' = [op |-> "start", ok |-> r.ok]
    /\ UNCHANGED <<envVars, pageVars, clockVars, ledgerVars, ghostVars, handlerVars>>

\* A worker ends, of itself or on a signal.
WorkerExit ==
  \E pid \in LivePids(spawned, exited) :
    /\ exited' = exited \cup {pid}
    /\ last' = [op |-> "exit", pid |-> pid]
    /\ UNCHANGED <<cwd, envRoots, starts, deciders, setters, pageVars, clockVars, ledgerVars, fsVars,
                   procVars, ghostVars, handlerVars>>

CallStop ==
  \E runIdRaw \in StopRunIds, pid \in StopPids :
    \E r \in {stopNoctuneRun(files, dirs, spawned, signals, LivePids(spawned, exited),
                             RootA, runIdRaw, pid)} :
      /\ files' = r.files
      /\ dirs' = r.dirs
      /\ spawned' = r.spawned
      /\ signals' = r.signals
      /\ last' = [op |-> "stop", runId |-> runIdRaw, pid |-> pid, ok |-> r.ok,
                  error |-> r.error,
                  killed |-> processKill(LivePids(spawned, exited), pid).ok,
                  stoppedBefore |-> StopFlagA \in DOMAIN files]
      /\ UNCHANGED <<envVars, pageVars, clockVars, ledgerVars, ghostVars, handlerVars>>

NextStop ==
  \/ CallStart
  \/ WorkerExit
  \/ CallStop

SpecStop == InitStop /\ [][NextStop]_vars

\* C16: a call of stop on a run that was stopped before does not fail, and
\* leaves the sentinel at the same path with the content a single call
\* leaves.
C16_StopIsIdempotent ==
  (last.op = "stop" /\ Trim(last.runId) # <<>> /\ last.stoppedBefore) =>
    /\ last.ok
    /\ DOMAIN SentinelsAndDecisions(files) = {StopFlagA}
    /\ files[StopFlagA] = StopText

\* The run has been stopped a second time.
C16_Witness_StoppedAgain ==
  /\ last.op = "stop" /\ last.stoppedBefore /\ last.ok
  /\ files[StopFlagA] = StopText

\* C17: stop answers ok=true and the sentinel is in place whether or not
\* the signal could be delivered; a signal that fails, because the process
\* is gone or belongs to someone else, does not fail the call.
C17_StopDespiteFailedSignal ==
  (last.op = "stop" /\ Trim(last.runId) # <<>>) =>
    /\ last.ok
    /\ StopFlagA \in DOMAIN files
    /\ files[StopFlagA] = StopText
    /\ last.pid # NoPid => Signal(last.pid, last.killed) \in signals

\* Stop was called with the pid of a worker that had ended, and with the
\* pid of a process of another user.
C17_Witness_SignalFailed ==
  /\ last.op = "stop" /\ last.ok
  /\ last.pid \in exited \cup ForeignPids
  /\ ~last.killed
  /\ StopFlagA \in DOMAIN files

\* ------------------------------------------------ starting a run's worker
MaxStarts == 2

\* crypto.randomBytes(4).toString('hex')
RandSuffixes == {"0a1b2c3d", "4e5f6a7b"}

\* The run ids a caller supplies: none, a, and an id that names the file
\* list of run a.
NestedRunId == <<"a", "/", "file_list.txt">>
StartRunIds == {<<>>, RunA, NestedRunId}
RelPathInputs == {<<>>, <<"a">>}

\* A call of start in flight: the statement it executes next, its arguments,
\* the id generateRunId would give it, and the pid of the worker it spawned.
StartCallRec(pc, runIdRaw, relPaths, gen, pid) ==
  [pc |-> pc, runIdRaw |-> runIdRaw, relPaths |-> relPaths, gen |-> gen, pid |-> pid]

InitStart ==
  /\ InitServer
  /\ files = <<>>

\* A call of start arrives and runs to its first await: the root is
\* resolved, the run id fixed and the state directory made.
StartCall ==
  \E runIdRaw \in StartRunIds, relPaths \in RelPathInputs, rand \in RandSuffixes :
    \E id \in {Cardinality(DOMAIN starts) + 1} :
      \E r \in {startMkdir(files, dirs, spawned, signals, RootA, runIdRaw,
                           generateRunId(now, rand))} :
        /\ id <= MaxStarts
        /\ runIdRaw # <<>> => rand = "0a1b2c3d"
        /\ dirs' = r.dirs
        /\ starts' = MapSet(starts, id,
                            StartCallRec(IF r.ok THEN startAfter("mkdir", relPaths # <<>>)
                                         ELSE "threw",
                                         runIdRaw, relPaths, generateRunId(now, rand), NoPid))
        /\ last' = [op |-> "startCall", id |-> id]
        /\ UNCHANGED <<cwd, envRoots, exited, deciders, setters, pageVars, clockVars, ledgerVars,
                       files, procVars, ghostVars, handlerVars>>

\* The file list is written.
StartWriteFileList ==
  \E id \in DOMAIN starts :
    \E r \in {startWriteFileList(files, dirs, spawned, signals, RootA, starts[id].runIdRaw,
                                 starts[id].gen, starts[id].relPaths)} :
      /\ starts[id].pc = "writeFile"
      /\ files' = r.files
      /\ starts' = [starts EXCEPT ![id].pc = IF r.ok THEN startAfter("writeFile", TRUE)
                                             ELSE "threw"]
      /\ last' = [op |-> "startWriteFileList", id |-> id]
      /\ UNCHANGED <<cwd, envRoots, exited, deciders, setters, pageVars, clockVars, ledgerVars,
                     dirs, procVars, ghostVars, handlerVars>>

\* The worker is spawned.
StartSpawn ==
  \E id \in DOMAIN starts :
    \E r \in {startSpawn(files, dirs, spawned, signals, RootA, starts[id].runIdRaw,
                         starts[id].gen, starts[id].relPaths)} :
      /\ starts[id].pc = "spawn"
      /\ spawned' = r.spawned
      /\ starts' = [starts EXCEPT
                      ![id].pc = startAfter("spawn", starts[id].relPaths # <<>>),
                      ![id].pid = NextPid(spawned)]
      /\ last' = [op |-> "startSpawn", id |-> id]
      /\ UNCHANGED <<cwd, envRoots, exited, deciders, setters, pageVars, clockVars, ledgerVars,
                     fsVars, signals, ghostVars, handlerVars>>

NextStart ==
  \/ StartCall
  \/ StartWriteFileList
  \/ StartSpawn

SpecStart == InitStart /\ [][NextStart]_vars

\* The file lists the calls of start have been handed for the run of `w`.
FileListsFor(w) ==
  {Text(starts[id].relPaths \o <<"">>) :
     id \in {i \in DOMAIN starts : /\ starts[i].relPaths # <<>>
                                   /\ startRunId(starts[i].runIdRaw, starts[i].gen) = w.runId}}

\* C18: whenever a worker has been spawned for a run, the run's state
\* directory exists and, when a file list was supplied, file_list.txt holds
\* a whole file list; a call of start whose mkdir or writeFile failed has
\* spawned no worker.
C18_DirectoryAndFileListBeforeSpawn ==
  /\ \A w \in spawned :
       /\ stateDirOf(w.cwd, w.runId) \in dirs
       /\ w.fileList =>
            /\ fileListPath(w.cwd, w.runId) \in DOMAIN files
            /\ files[fileListPath(w.cwd, w.runId)] \in FileListsFor(w)
  /\ \A id \in DOMAIN starts :
       starts[id].pc = "threw" => starts[id].pid = NoPid

\* A worker runs with its file list written, and another call of start
\* failed at its mkdir or writeFile.
C18_Witness_SpawnedAndFailed ==
  /\ \E w \in spawned : w.fileList /\ fileListPath(w.cwd, w.runId) \in DOMAIN files
  /\ \E id \in DOMAIN starts : starts[id].pc = "threw"

\* C19: no two calls of start on one root yield the same run id, generated
\* or supplied, so no two workers are launched on one run directory.
C19_RunIdsUnique ==
  \A w1, w2 \in spawned :
    (w1.cwd = w2.cwd /\ w1.runId = w2.runId) => w1 = w2

\* ------------------------------------------------------ run state reader
\* The JSON values of a run state's fields: null (or absent), a number, a
\* string that Date.parse reads as the instant ms, and any other string.
JNull == [t |-> "null"]
JNum(n) == [t |-> "number", n |-> n]
JIso(ms) == [t |-> "string", iso |-> TRUE, ms |-> ms]
JText == [t |-> "string", iso |-> FALSE, ms |-> 0]

\* The content of state/run.json: a JSON object with the worker's pid and
\* its timestamps, a JSON value that is not an object, or text that is not
\* JSON.
RunState(pid, updated_at, started_at) ==
  [kind |-> "state", pid |-> pid, updated_at |-> updated_at, started_at |-> started_at]
RunStateDoc(pid) == RunState(IF pid = NoPid THEN JNull ELSE JNum(pid), JNull, JNull)
JsonScalar == [kind |-> "scalar"]

\* A probe that takes only the delivered signal for a sign of life.
pidExists_OnlyOnSuccess(alive, pid) ==
  IF pid = NoPid \/ pid <= 0 THEN FALSE ELSE processKill(alive, pid).ok

\* pidExists: the process can be signalled, or the signal fails with
\* anything but ESRCH.  Signal 0 is delivered to no process.
pidExists(alive, pid) ==
  IF pid = NoPid \/ pid <= 0 THEN FALSE
  ELSE LET k == processKill(alive, pid)
       IN k.ok \/ k.error # "ESRCH"

readRunState(fs, ds, alive, repoRootRaw, runIdRaw) ==
  LET r == resolveRepoRootOrThrow(repoRootRaw)
      p == runJsonPath(r.value, Trim(runIdRaw))
      obj == safeJsonParse(fs[p])
      state == IF obj # Null /\ obj[1].kind = "state" THEN obj ELSE Null
      pid == IF state # Null /\ state[1].pid.t = "number" THEN state[1].pid.n ELSE NoPid
  IN IF ~r.ok THEN Throw(r.error)
     ELSE IF p \notin DOMAIN fs THEN Ok([ok |-> FALSE, state |-> Null, path |-> p])
     ELSE Ok([ok |-> TRUE, state |-> state, path |-> p,
              pidAlive |-> IF pid # NoPid THEN pidExists(alive, pid) ELSE FALSE])

\* ------------------------------------ a run's files and their readers
RunJsonA == runJsonPath(RootA, RunA)
RunStateInputs == {RunStateDoc(NoPid), RunStateDoc(FirstPid), JsonScalar, Garbage}
TailCursors == {Null, Num(0)}

InitReader ==
  /\ InitServer
  /\ files = <<>>

\* A direct call of a reader is looked at as it returns.
Read == last.op \in {"tailRun", "readRunState"}

\* The worker writes its state record, whole or broken.
WorkerWriteState ==
  \E content \in RunStateInputs :
    /\ ~Read
    /\ files' = MapSet(files, RunJsonA, content)
    /\ dirs' = Mkdirp(dirs, PathDirname(RunJsonA))
    /\ last' = [op |-> "writeState"]
    /\ UNCHANGED <<envVars, pageVars, clockVars, ledgerVars, procVars, ghostVars,
                   handlerVars>>

\* The worker appends an event to the log at one of the two places; the
\* events of the two logs differ.
WorkerLog ==
  \E loc \in {EventsLog1, EventsLog2} :
    LET old == IF loc \in DOMAIN files THEN files[loc].lines ELSE <<>>
        i == (IF loc = EventsLog1 THEN 0 ELSE 10) + Len(old) + 1
    IN /\ ~Read
       /\ Len(old) < MaxLines
       /\ files' = MapSet(files, loc, Log(Append(old, Line("json", i))))
       /\ dirs' = Mkdirp(dirs, PathDirname(loc))
       /\ last' = [op |-> "log"]
       /\ UNCHANGED <<envVars, pageVars, clockVars, ledgerVars, procVars, ghostVars,
                      handlerVars>>

CallReadRunState ==
  \E repoRoot \in RootInputs, runIdRaw \in {RunA, RunB} :
    /\ ~Read
    /\ last' = [op |-> "readRunState", repoRoot |-> repoRoot, runId |-> runIdRaw,
                out |-> readRunState(files, dirs, LivePids(spawned, exited), repoRoot,
                                     runIdRaw)]
    /\ UNCHANGED <<envVars, pageVars, clockVars, ledgerVars, fsVars, procVars, ghostVars,
                   handlerVars>>

\* tail with the default limit, which spans the whole log.
CallTailRun ==
  \E cursor \in TailCursors, runIdRaw \in {RunA, RunB} :
    /\ ~Read
    /\ last' = [op |-> "tailRun", runId |-> runIdRaw, cursor |-> cursor,
                out |-> tailNoctuneEvents(files, dirs, RootA, runIdRaw, cursor, Null)]
    /\ UNCHANGED <<envVars, pageVars, clockVars, ledgerVars, fsVars, procVars, ghostVars,
                   handlerVars>>

NextReader ==
  \/ WorkerWriteState
  \/ WorkerLog
  \/ CallReadRunState
  \/ CallTailRun

SpecReader == InitReader /\ [][NextReader]_vars

\* The events of the log at p.
EventsAt(p) == ParsedEvents(NonBlank(files[p].lines))

\* C11: tail reads events/events.jsonl when that file exists and otherwise
\* logs/events.jsonl; when neither exists it does not fail and returns no
\* events with cursor = 0 and nextCursor = 0.
C11_PrimaryThenSecondaryLog ==
  last.op = "tailRun" =>
    LET p1 == eventsPath1(RootA, last.runId)
        p2 == eventsPath2(RootA, last.runId)
        v == last.out.value
    IN /\ last.out.ok
       /\ p1 \in DOMAIN files => (v.path = p1 /\ v.events = EventsAt(p1))
       /\ (p1 \notin DOMAIN files /\ p2 \in DOMAIN files) =>
            (v.path = p2 /\ v.events = EventsAt(p2))
       /\ (p1 \notin DOMAIN files /\ p2 \notin DOMAIN files) =>
            (v.events = <<>> /\ v.cursor = 0 /\ v.nextCursor = 0)

\* Both logs exist and hold different events: tail returned the primary's.
C11_Witness_BothLogs ==
  /\ last.op = "tailRun"
  /\ EventsLog1 \in DOMAIN files /\ EventsLog2 \in DOMAIN files
  /\ last.runId = RunA
  /\ last.out.value.events = EventsAt(EventsLog1)
  /\ EventsAt(EventsLog1) # EventsAt(EventsLog2)

\* C20: readRunState returns ok=false with state=null, without raising, when
\* state/run.json is missing and when it exists but is not JSON or is JSON
\* that is not an object.
C20_UnreadableStateIsNotOk ==
  (/\ last.op = "readRunState"
   /\ resolveRepoRootOrThrow(last.repoRoot).ok
   /\ \/ runJsonPath(RootA, last.runId) \notin DOMAIN files
      \/ files[runJsonPath(RootA, last.runId)].kind # "state") =>
    /\ last.out.ok
    /\ ~last.out.value.ok
    /\ last.out.value.state = Null

\* ------------------------------------------- the liveness of a worker
\* What a worker, or anyone else, leaves as the pid of state/run.json.
PidValues ==
  {JNull, JText, JNum(-1), JNum(0)} \cup {JNum(p) : p \in ForeignPids}
    \cup {JNum(FirstPid + k) : k \in 0 .. MaxWorkers - 1}
PidDocs == {RunState(p, JNull, JNull) : p \in PidValues} \cup {JsonScalar}

WorkerWritePid ==
  \E content \in PidDocs :
    /\ ~Read
    /\ files' = MapSet(files, RunJsonA, content)
    /\ dirs' = Mkdirp(dirs, PathDirname(RunJsonA))
    /\ last' = [op |-> "writeState"]
    /\ UNCHANGED <<envVars, pageVars, clockVars, ledgerVars, procVars, ghostVars,
                   handlerVars>>

NextLiveness ==
  \/ WorkerWritePid
  \/ CallStart
  \/ WorkerExit
  \/ CallReadRunState

SpecLiveness == InitReader /\ [][NextLiveness]_vars

\* The pid state/run.json records, when it is a positive number.
PositivePid(doc) == doc.kind = "state" /\ doc.pid.t = "number" /\ doc.pid.n > 0
\* No process has the pid: it is no running worker and no process of
\* another user.
NoSuchProcess(pid) == pid \notin LivePids(spawned, exited) \cup ForeignPids

\* C21: readRunState reports pidAlive = false exactly when the state records
\* no positive numeric pid or when no process has the recorded pid; it
\* reports true when the process can be signalled and when the probe fails
\* for another reason, such as a process of another user.
C21_PidAliveUnlessNoSuchProcess ==
  (last.op = "readRunState" /\ last.out.ok /\ last.out.value.ok) =>
    LET doc == files[last.out.value.path]
    IN last.out.value.pidAlive = (PositivePid(doc) /\ ~NoSuchProcess(doc.pid.n))

\* A run whose recorded pid belongs to another user's process was read as
\* alive, with an ended worker beside it.
C21_Witness_ForeignPidAlive ==
  /\ last.op = "readRunState"
  /\ last.out.ok /\ last.out.value.ok
  /\ last.out.value.state # Null
  /\ last.out.value.state[1].pid \in {JNum(p) : p \in ForeignPids}
  /\ last.out.value.pidAlive
  /\ exited # {}

\* ------------------------------------------------------ the list of runs
MaxStamp == 2
DefaultListLimit == 50
MaxListLimit == 200

\* isoToMs: the instant of an ISO string, and 0 for anything else.
isoToMs(s) == IF s.t = "string" /\ s.iso THEN s.ms ELSE 0

\* a || b of two numbers.
OrElse(a, b) == IF a # 0 THEN a ELSE b

\* A key that takes the later of the two timestamps.
sortMsOf_Latest(state) ==
  IF state = Null THEN 0
  ELSE Max(isoToMs(state[1].updated_at), isoToMs(state[1].started_at))

\* isoToMs(st.state?.updated_at) || isoToMs(st.state?.started_at) || 0
sortMsOf(state) ==
  IF state = Null THEN 0
  ELSE OrElse(OrElse(isoToMs(state[1].updated_at), isoToMs(state[1].started_at)), 0)

\* The names of the runs directory in collation order, and localeCompare.
RunC == <<"c">>
HiddenName == <<".", "h">>
RunCollation == <<HiddenName, RunA, RunB, RunC>>
CollationRank(name) == CHOOSE i \in 1 .. Len(RunCollation) : RunCollation[i] = name
localeCompare(a, b) == CollationRank(a) - CollationRank(b)

\* The comparator of recs.sort: negative when a comes before b.
compareRecs(a, b) ==
  IF a.sortMs # b.sortMs THEN b.sortMs - a.sortMs ELSE localeCompare(b.runId, a.runId)

RECURSIVE SortRecs(_)
SortRecs(recs) ==
  IF recs = {} THEN <<>>
  ELSE LET first == CHOOSE a \in recs : \A b \in recs \ {a} : compareRecs(a, b) < 0
       IN <<first>> \o SortRecs(recs \ {first})

\* A limit that is capped but has no floor.
listLimit_NoFloor(limit) == Min(IF limit = Null THEN DefaultListLimit ELSE limit[1], MaxListLimit)

\* Math.max(1, Math.min(Math.floor(opts.limit ?? 50), 200))
listLimit(limit) ==
  Max(1, Min(IF limit = Null THEN DefaultListLimit ELSE limit[1], MaxListLimit))

\* recs: one record for each name that is not hidden, with the state
\* readRunState gives for it.
runRecs(fs, ds, alive, repoRoot, names) ==
  {[runId |-> x[1], state |-> x[2], sortMs |-> sortMsOf(x[2])] :
     x \in {<<n, readRunState(fs, ds, alive, repoRoot, n).value.state>> :
              n \in {m \in names : ~StartsWith(m, <<Dot>>)}}}

\* recs.slice(0, lim).map(({ runId, state }) => ({ runId, state }))
sliceRuns(sorted, limit) ==
  [i \in 1 .. Min(listLimit(limit), Len(sorted)) |->
     [runId |-> sorted[i].runId, state |-> sorted[i].state]]

listRuns(fs, ds, alive, repoRootRaw, limit) ==
  LET r == resolveRepoRootOrThrow(repoRootRaw)
      dir == runsDir(r.value)
  IN IF ~r.ok THEN Throw(r.error)
     ELSE IF dir \notin ds THEN Ok([ok |-> TRUE, runs |-> <<>>, dir |-> dir])
     ELSE CHOOSE out \in
            {Ok([ok |-> TRUE, dir |-> d, runs |-> sliceRuns(sorted, limit)]) :
               d \in {dir},
               sorted \in {SortRecs(recs) :
                            recs \in {runRecs(fs, ds, alive, r.value, Readdir(fs, ds, dir))}}} :
            TRUE

\* ------------------------------------------- runs written and listed
Stamps == {JNull, JText} \cup {JIso(ms) : ms \in 1 .. MaxStamp}
\* Run b carries any pair of timestamps, run a any updated_at and no
\* started_at, and run c is updated after both.
RunDocs(run) ==
  IF run = RunC THEN {RunState(JNull, JIso(MaxStamp + 1), JNull)}
  ELSE IF run = RunA THEN {RunState(JNull, u, JNull) : u \in Stamps}
  ELSE {RunState(JNull, u, s) : u, s \in Stamps}
ListLimits == {Null, Num(0), Num(1), Num(2), Num(MaxListLimit + 1)}

Listed == last.op = "listRuns"

\* A worker leaves its run directory, without a state record yet.
WorkerMkdir ==
  \E run \in {RunA, RunB, RunC, HiddenName} :
    /\ ~Listed
    /\ runDirOf(RootA, run) \notin dirs
    /\ dirs' = Mkdirp(dirs, runDirOf(RootA, run))
    /\ last' = [op |-> "mkdir"]
    /\ UNCHANGED <<envVars, pageVars, clockVars, ledgerVars, files, procVars, ghostVars,
                   handlerVars>>

\* A worker writes the state record of its run, once.
WorkerWriteTimes ==
  \E run \in {RunA, RunB, RunC} :
    \E content \in RunDocs(run) :
      /\ ~Listed
      /\ runDirOf(RootA, run) \in dirs
      /\ runJsonPath(RootA, run) \notin DOMAIN files
      /\ files' = MapSet(files, runJsonPath(RootA, run), content)
      /\ dirs' = Mkdirp(dirs, PathDirname(runJsonPath(RootA, run)))
      /\ last' = [op |-> "writeState"]
      /\ UNCHANGED <<envVars, pageVars, clockVars, ledgerVars, procVars, ghostVars,
                     handlerVars>>

CallListRuns ==
  \E limit \in ListLimits :
    /\ ~Listed
    /\ last' = [op |-> "listRuns", repoRoot |-> RootA, limit |-> limit,
                out |-> listRuns(files, dirs, LivePids(spawned, exited), RootA, limit)]
    /\ UNCHANGED <<envVars, pageVars, clockVars, ledgerVars, fsVars, procVars, ghostVars,
                   handlerVars>>

NextRuns ==
  \/ WorkerMkdir
  \/ WorkerWriteTimes
  \/ CallListRuns

SpecRuns == InitReader /\ [][NextRuns]_vars

\* The entries of the runs directory that are not hidden, and a run's
\* state as readRunState gives it.
VisibleRuns == {n \in Readdir(files, dirs, runsDir(RootA)) : ~StartsWith(n, <<Dot>>)}
StateOfRun(n) == readRunState(files, dirs, {}, RootA, n).value.state
\* a is listed before b under the key.
Before(ka, a, kb, b) == ka > kb \/ (ka = kb /\ CollationRank(a) > CollationRank(b))

\* C22: listRuns orders the runs descending by the later of updated_at and
\* started_at, an absent or unparsable timestamp counting as 0, and runs of
\* equal key by run id, descending.
C22_OrderedByLatestTimestamp ==
  (last.op = "listRuns" /\ last.out.ok) =>
    LET runs == last.out.value.runs
    IN \A i, j \in 1 .. Len(runs) :
         i < j => Before(sortMsOf_Latest(runs[i].state), runs[i].runId,
                         sortMsOf_Latest(runs[j].state), runs[j].runId)

\* The order the code keeps: updated_at when it parses, else started_at.
OrderedByUpdatedElseStarted ==
  (last.op = "listRuns" /\ last.out.ok) =>
    LET runs == last.out.value.runs
    IN \A i, j \in 1 .. Len(runs) :
         i < j => Before(sortMsOf(runs[i].state), runs[i].runId,
                         sortMsOf(runs[j].state), runs[j].runId)

\* The limit of the call, clamped.
ClampedListLimit(limit) ==
  IF limit = Null THEN DefaultListLimit
  ELSE IF limit[1] < 1 THEN 1
  ELSE IF limit[1] > MaxListLimit THEN MaxListLimit ELSE limit[1]

\* Every run has an updated_at that parses, and no two runs the same.
DistinctUpdates ==
  /\ \A n \in VisibleRuns : StateOfRun(n) # Null /\ isoToMs(StateOfRun(n)[1].updated_at) > 0
  /\ \A n, m \in VisibleRuns :
       n # m => StateOfRun(n)[1].updated_at # StateOfRun(m)[1].updated_at

SetterIds == {1, 2}

\* obj after the read: the browsers of the document, {} when there is none.
setterRead(fs, p) == BrowsersOf(fs, p)
\* The document written back.
setterWrite(fs, p, browsers, browserId) ==
  MapSet(fs, p, AllowDoc(MapSet(browsers, browserId, TRUE)))

SetCall ==
  \E id \in SetterIds \ DOMAIN setters, repoRoot \in {RootA, RootB}, browserId \in BrowserIds :
    LET r == resolveRepoRootOrThrow(repoRoot)
    IN /\ IF r.ok
          THEN /\ dirs' = Mkdirp(dirs, PathDirname(allowFilePath(r.value)))
               /\ setters' = MapSet(setters, id,
                                    [pc |-> "readFile", p |-> allowFilePath(r.value),
                                     repoRoot |-> repoRoot, browserId |-> browserId,
                                     browsers |-> <<>>])
          ELSE UNCHANGED <<dirs, setters>>
       /\ last' = [op |-> "setCall", ok |-> r.ok]
       /\ UNCHANGED <<cwd, envRoots, exited, starts, deciders, pageVars, clockVars,
                      ledgerVars, files, procVars, ghostVars, handlerVars>>

SetRead ==
  \E id \in DOMAIN setters :
    /\ setters[id].pc = "readFile"
    /\ setters' = [setters EXCEPT ![id].pc = "writeFile",
                                  ![id].browsers = setterRead(files, setters[id].p)]
    /\ last' = [op |-> "setRead"]
    /\ UNCHANGED <<cwd, envRoots, exited, starts, deciders, pageVars, clockVars,
                   ledgerVars, fsVars, procVars, ghostVars, handlerVars>>

SetWrite ==
  \E id \in DOMAIN setters :
    /\ setters[id].pc = "writeFile"
    /\ files' = setterWrite(files, setters[id].p, setters[id].browsers,
                            setters[id].browserId)
    /\ setters' = [setters EXCEPT ![id].pc = "done"]
    /\ last' = [op |-> "setDone", browserId |-> setters[id].browserId]
    /\ UNCHANGED <<cwd, envRoots, exited, starts, deciders, pageVars, clockVars,
                   ledgerVars, dirs, procVars, ghostVars, handlerVars>>

NextGrantRace ==
  \/ SetCall
  \/ SetRead
  \/ SetWrite

SpecGrantRace == InitServer /\ [][NextGrantRace]_vars

\* C24: once a call of setAlwaysAllowed(root, b) has completed,
\* isAlwaysAllowed(root, b) is true in every later state, also when calls of
\* setAlwaysAllowed for other browsers on the root run beside it or after it.
C24_GrantIsDurable ==
  \A id \in DOMAIN setters :
    setters[id].pc = "done" =>
      isAlwaysAllowed(files, setters[id].repoRoot, setters[id].browserId) = Ok(TRUE)

\* ------------------------------ the ledger across process lifetimes
\* A map of globalThis in a new process: absent, and created empty at the
\* first use.
restartedStore_Persisted(store) == store
restartedStore(store) == <<>>

\* The allow document a previous lifetime left: none, one that grants
\* browser 2, or one that does not parse.
PersistDocs == InitialAllowDocs \cup {[p \in {allowFilePath(RootA)} |-> Garbage]}

InitPersist ==
  /\ cwd = ServerCwd
  /\ envRoots = <<>>
  /\ files \in PersistDocs
  /\ dirs = Mkdirp(Mkdirp({}, ServerCwd), PathDirname(allowFilePath(RootA)))
  /\ InitProcess

\* The ids of a kind that were issued in a lifetime that has ended.
Retired(kind) == kind \o " of an ended process"

CallSetAlwaysAllowed ==
  \E repoRoot \in {RootA, RootB}, browserId \in BrowserIds :
    \E r \in {setAlwaysAllowed(files, dirs, repoRoot, browserId)} :
      /\ files' = r.files
      /\ dirs' = r.dirs
      /\ last' = [op |-> "setAlwaysAllowed", repoRoot |-> repoRoot,
                  browserId |-> browserId, ok |-> r.ok, filesBefore |-> files]
      /\ UNCHANGED <<envVars, pageVars, clockVars, ledgerVars, procVars, ghostVars,
                     handlerVars>>

\* The serving process ends and a new one starts: the maps of globalThis are
\* gone, the files stay.
Restart ==
  /\ onceTokens' = restartedStore(onceTokens)
  /\ allowedSessions' = restartedStore(allowedSessions)
  /\ issued' = issued \cup {<<Retired(x[1]), x[2]>> :
                               x \in {y \in issued : y[1] \in {"token", "session"}}}
  /\ last' = [op |-> "restart", filesBefore |-> files, tokensBefore |-> onceTokens,
              sessionsBefore |-> allowedSessions]
  /\ UNCHANGED <<envVars, pageVars, clockVars, fsVars, procVars, looked, handlerVars>>

NextPersist ==
  \/ CallIssueOnceToken
  \/ CallConsumeOnceToken
  \/ CallAllowSession
  \/ CallIsSessionAllowed
  \/ CallSetAlwaysAllowed
  \/ Restart

SpecPersist == InitPersist /\ [][NextPersist]_vars

AlwaysAllowedIn(fs, repoRoot, browserId) == isAlwaysAllowed(fs, repoRoot, browserId) = Ok(TRUE)

C26_OnlyPersistentGrantsSurviveRestart ==
  /\ \A x \in issued :
       /\ x[1] = Retired("token") => ~consumeOnceToken(onceTokens, x[2], now).ret
       /\ x[1] = Retired("session") => ~isSessionAllowed(allowedSessions, x[2], now).ret
  /\ last.op = "restart" =>
       \A repoRoot \in {RootA, RootB}, b \in BrowserIds :
         isAlwaysAllowed(files, repoRoot, b) = isAlwaysAllowed(last.filesBefore, repoRoot, b)

\* The process was restarted with a token and a session in its maps and a
\* browser granted for good.
C26_Witness_RestartedWithGrants ==
  /\ last.op = "restart"
  /\ last.tokensBefore # <<>>
  /\ last.sessionsBefore # <<>>
  /\ AlwaysAllowedIn(files, RootA, 1)

\* ------------------------------------------------ sessions and the clock
SessionPool == {1, 2}

SessionGrant ==
  \E sessionId \in SessionPool :
    /\ allowedSessions' = allowSession(allowedSessions, sessionId, now)
    /\ last' = [op |-> "allowSession", sessionId |-> sessionId]
    /\ UNCHANGED <<envVars, pageVars, clockVars, onceTokens, fsVars, procVars, ghostVars,
                   handlerVars>>

SessionCheck ==
  \E sessionId \in SessionPool :
    LET r == isSessionAllowed(allowedSessions, sessionId, now)
    IN /\ allowedSessions' = r.sessions
       /\ last' = [op |-> "isSessionAllowed", sessionId |-> sessionId, ret |-> r.ret]
       /\ UNCHANGED <<envVars, pageVars, clockVars, onceTokens, fsVars, procVars, ghostVars,
                      handlerVars>>

\* A gated request that carries the session's cookie and nothing else.
SessionEvaluate ==
  \E sessionId \in SessionPool :
    LET r == computeAllowWrite(RootA, NoId, <<<<STUDIO_SESSION_ID_COOKIE, sessionId>> >>)
    IN /\ onceTokens' = r.tokens
       /\ allowedSessions' = r.sessions
       /\ last' = [op |-> "evaluate", sessionId |-> sessionId, ret |-> r.allowed]
       /\ UNCHANGED <<envVars, pageVars, clockVars, fsVars, procVars, ghostVars, handlerVars>>

NextSessions ==
  \/ Tick
  \/ SessionGrant
  \/ SessionCheck
  \/ SessionEvaluate

SpecSessions == InitServer /\ [][NextSessions]_vars

\* The session has a grant, and the grant has not expired.
GrantLive(sessionId) ==
  sessionId \in DOMAIN allowedSessions /\ now <= allowedSessions[sessionId]
\* The grants after a read of the session: the expired grant goes.
AfterRead(sessionId) ==
  IF sessionId \in DOMAIN allowedSessions /\ ~GrantLive(sessionId)
  THEN MapDel(allowedSessions, sessionId) ELSE allowedSessions

\* What a step does to the grants: a read answers whether the session's
\* grant is live and removes it when it has expired; no other step removes
\* a grant; no step touches the grant of another session.
SessionStep ==
  /\ last'.op \in {"isSessionAllowed", "evaluate"} =>
       /\ last'.ret = GrantLive(last'.sessionId)
       /\ allowedSessions' = AfterRead(last'.sessionId)
  /\ last'.op \notin {"isSessionAllowed", "evaluate"} =>
       DOMAIN allowedSessions \subseteq DOMAIN allowedSessions'
  /\ last'.op # "tick" =>
       \A s \in SessionPool \ {last'.sessionId} :
         /\ s \in DOMAIN allowedSessions <=> s \in DOMAIN allowedSessions'
         /\ s \in DOMAIN allowedSessions => allowedSessions'[s] = allowedSessions[s]

\* C27: isSessionAllowed(s) returns true exactly when s has a grant and the
\* time is not past its expiry; the read that finds the grant expired
\* removes that grant and returns false; no grant is removed at another
\* moment, and the grants of other sessions are never touched.
C27_ExpiredSessionRemovedOnRead == [][SessionStep]_vars

\* A read found session 1 expired and removed its grant, and the expired
\* grant of session 2 is still there.
C27_Witness_ExpiredReadKeepsOther ==
  /\ last.op = "isSessionAllowed"
  /\ last.sessionId = 1
  /\ ~last.ret
  /\ 1 \notin DOMAIN allowedSessions
  /\ 2 \in DOMAIN allowedSessions
  /\ now > allowedSessions[2]

\* ------------------------------------------- the core on a run's files
MaxCoreStarts == 1

\* Run a as its worker left it: a state record, an event log and a request
\* for approval.
WorkerFiles ==
  [p \in {RunJsonA, EventsLog1, requestPath(ApprovalA)} |->
     IF p = RunJsonA THEN RunStateDoc(FirstPid)
     ELSE IF p = EventsLog1 THEN Log(<<Line("json", 1)>>)
     ELSE Request(ApprovalA)]

InitCore ==
  /\ cwd = ServerCwd
  /\ envRoots = <<>>
  /\ files = WorkerFiles
  /\ dirs = Mkdirp(Mkdirp(Mkdirp(Mkdirp({}, ServerCwd), PathDirname(RunJsonA)),
                          PathDirname(EventsLog1)),
                   PathDirname(requestPath(ApprovalA)))
  /\ InitProcess

\* The arguments of the calls: a root on the allow-list and one outside it,
\* run a, approval a and an approval id that points at the state directory.
CoreRoots == {RootA, RootB}
UpToRun == <<".", ".", "/", "run">>
CoreApprovalIds == {ApprovalA, UpToRun}

\* What a call leaves of itself: its name, its root and how it ended.
CoreCall(op, repoRoot, ok, error) ==
  [op |-> op, repoRoot |-> repoRoot, ok |-> ok, error |-> IF ok THEN "" ELSE error]

CoreStart ==
  \E repoRoot \in CoreRoots, relPaths \in RelPathInputs :
    \E r \in {startNoctuneRun(files, dirs, spawned, signals, repoRoot, RunA, relPaths,
                              GeneratedRunId)} :
      /\ Cardinality(spawned) < MaxCoreStarts
      /\ files' = r.files
      /\ dirs' = r.dirs
      /\ spawned' = r.spawned
      /\ signals' = r.signals
      /\ last' = CoreCall("start", repoRoot, r.ok, r.error)
      /\ UNCHANGED <<envVars, pageVars, clockVars, ledgerVars, ghostVars, handlerVars>>

CoreStop ==
  \E repoRoot \in CoreRoots, pid \in {NoPid, FirstPid} :
    \E r \in {stopNoctuneRun(files, dirs, spawned, signals, LivePids(spawned, exited),
                             repoRoot, RunA, pid)} :
      /\ files' = r.files
      /\ dirs' = r.dirs
      /\ spawned' = r.spawned
      /\ signals' = r.signals
      /\ last' = CoreCall("stop", repoRoot, r.ok, r.error)
      /\ UNCHANGED <<envVars, pageVars, clockVars, ledgerVars, ghostVars, handlerVars>>

CoreDecide ==
  \E repoRoot \in CoreRoots, approvalIdRaw \in CoreApprovalIds :
    \E r \in {decideApproval(files, dirs, spawned, signals, repoRoot, RunA, approvalIdRaw,
                             TRUE, Null)} :
      /\ files' = r.files
      /\ dirs' = r.dirs
      /\ spawned' = r.spawned
      /\ signals' = r.signals
      /\ last' = CoreCall("decide", repoRoot, r.ok, r.error)
      /\ UNCHANGED <<envVars, pageVars, clockVars, ledgerVars, ghostVars, handlerVars>>

CoreSetAlwaysAllowed ==
  \E repoRoot \in CoreRoots :
    \E r \in {setAlwaysAllowed(files, dirs, repoRoot, 1)} :
      /\ files' = r.files
      /\ dirs' = r.dirs
      /\ last' = CoreCall("setAlwaysAllowed", repoRoot, r.ok,
                          resolveRepoRootOrThrow(repoRoot).error)
      /\ UNCHANGED <<envVars, pageVars, clockVars, ledgerVars, procVars, ghostVars,
                     handlerVars>>

\* The readers return what they found and keep nothing.
CoreReturn(op, repoRoot, out) ==
  /\ last' = CoreCall(op, repoRoot, out.ok, out.error)
  /\ UNCHANGED <<envVars, pageVars, clockVars, ledgerVars, fsVars, procVars, ghostVars,
                 handlerVars>>

CoreRead ==
  \E repoRoot \in CoreRoots :
    \/ \E out \in {tailNoctuneEvents(files, dirs, repoRoot, RunA, Null, Null)} :
         CoreReturn("tail", repoRoot, out)
    \/ \E out \in {readRunState(files, dirs, LivePids(spawned, exited), repoRoot, RunA)} :
         CoreReturn("readRunState", repoRoot, out)
    \/ \E out \in {listRuns(files, dirs, LivePids(spawned, exited), repoRoot, Null)} :
         CoreReturn("listRuns", repoRoot, out)
    \/ \E out \in {listPendingApprovals(files, dirs, repoRoot, RunA)} :
         CoreReturn("listPending", repoRoot, out)
    \/ \E out \in {listApprovalsWithDecisions(files, dirs, repoRoot, RunA)} :
         CoreReturn("listWithDecisions", repoRoot, out)
    \/ \E out \in {isAlwaysAllowed(files, repoRoot, 1)} :
         CoreReturn("isAlwaysAllowed", repoRoot, out)

NextCore ==
  \/ CoreStart
  \/ CoreStop
  \/ CoreDecide
  \/ CoreSetAlwaysAllowed
  \/ CoreRead

SpecCore == InitCore /\ [][NextCore]_vars

\* The paths below the runs directory, the name of the file at p, and
\* whether a step leaves p another file.
RunsDirA == runsDir(RootA)
BelowRuns(p) == StartsWith(p, RunsDirA \o <<Sep>>)
BaseName(p) ==
  LET cut == CHOOSE k \in 0 .. Len(p) :
               /\ k = 0 \/ p[k] = Sep
               /\ \A j \in k + 1 .. Len(p) : p[j] # Sep
  IN SubSeq(p, cut + 1, Len(p))
Changed(p) == p \notin DOMAIN files \/ p \notin DOMAIN files' \/ files[p] # files'[p]
IsStopFlag(p) == BaseName(p) = <<"stop.flag">>
IsDecision(p) == EndsWith(BaseName(p), <<".decision">>)
IsFileList(p) == BaseName(p) = <<"file_list.txt">>
\* The files of a run that are the worker's: the state record, the event
\* logs and the requests for approval.
IsWorkerFile(p) ==
  \/ BaseName(p) \in {<<"run.json">>, <<"events.jsonl">>}
  \/ EndsWith(BaseName(p), <<".json">>)

CoreWrites ==
  /\ \A p \in (DOMAIN files) \cup (DOMAIN files') :
       (Changed(p) /\ BelowRuns(p)) =>
         (IsStopFlag(p) \/ IsDecision(p) \/ IsFileList(p))
  /\ \A p \in (DOMAIN files) \cup (DOMAIN files') : IsWorkerFile(p) => ~Changed(p)

\* C28: no operation of the core creates, changes or removes a run's
\* state/run.json, its event log or a request <id>.json; the files the core
\* writes below the runs directory are stop.flag, <id>.decision and
\* file_list.txt.
C28_CoreLeavesWorkerFiles == [][CoreWrites]_vars

\* The core has written a stop sentinel, a file list and a decision beside
\* the worker's files.
C28_Witness_CoreFilesBesideWorkerFiles ==
  /\ last.op = "decide" /\ last.ok
  /\ StopFlagA \in DOMAIN files
  /\ fileListPath(RootA, RunA) \in DOMAIN files
  /\ decisionPathOf(approvalsDir(RootA, RunA), UpToRun) \in DOMAIN files
  /\ \A p \in DOMAIN WorkerFiles : p \in DOMAIN files /\ files[p] = WorkerFiles[p]

CoreKeeps ==
  /\ dirs \subseteq dirs'
  /\ \A p \in DOMAIN files :
       /\ IsStopFlag(p) => (p \in DOMAIN files' /\ files'[p] = files[p])
       /\ IsDecision(p) => (p \in DOMAIN files' /\ files'[p].kind = "decision")

\* C29: no operation of the core removes or truncates a run directory, a
\* stop sentinel or a decision file, so the stop.flag a call of stop has
\* written is there in every later state, also after a start that takes the
\* run id again.
C29_StopRequestStays == [][CoreKeeps]_vars

\* Run a was stopped and decided, and then started again.
C29_Witness_StartedAfterStop ==
  /\ last.op = "start" /\ last.ok
  /\ spawned # {}
  /\ StopFlagA \in DOMAIN files /\ files[StopFlagA] = StopText
  /\ decisionPath(ApprovalA) \in DOMAIN files

\* The root is on no allow-listed root and below none.
OutsideAllowList(repoRoot) ==
  \A base \in getAllowedRepoRoots : ~Inside(base, PathResolveFrom(cwd, repoRoot))

RootChecked ==
  OutsideAllowList(last'.repoRoot) =>
    /\ ~last'.ok
    /\ last'.error = "repoRoot is not allowed"
    /\ UNCHANGED <<files, dirs, spawned, signals>>

\* C30: for a root outside the allow-list every operation of the core fails
\* with the root-not-allowed error, and has by then made no directory,
\* written no file, started no process and sent no signal.
C30_OutsideRootFailsFirst == [][RootChecked]_vars

\* Stop was called for a live worker under a root outside the allow-list.
C30_Witness_StopOutsideRoot ==
  /\ last.op = "stop"
  /\ last.repoRoot = RootB
  /\ ~last.ok
  /\ LivePids(spawned, exited) # {}

\* ------------------------------------------------ file tools, the backups
\* The file tools are called one after the other on the root /a: a source
\* file of the repository, which may or may not be there, and a file inside
\* .noctune_cache.
CacheFile == <<".noctune_cache", "/", "a">>
EditPaths == {RepoFile, CacheFile}
EditContents == {Text(<<"x">>)}
EditFiles ==
  {<<>>, [p \in {PathResolveFrom(RootA, RepoFile)} |-> Text(<<"a", "b">>)]}

InitEdits ==
  /\ cwd = ServerCwd
  /\ envRoots = <<>>
  /\ files \in EditFiles
  /\ dirs = Mkdirp(Mkdirp({}, ServerCwd), RootA)
  /\ InitProcess

EditCall(op, relOrAbsPath, wrote, r) ==
  /\ files' = r.files
  /\ dirs' = r.dirs
  /\ last' = [op |-> op, path |-> relOrAbsPath, ok |-> r.ok, wrote |-> r.ok /\ wrote,
              at |-> now, filesBefore |-> files]
  /\ UNCHANGED <<envVars, pageVars, clockVars, ledgerVars, procVars, ghostVars, handlerVars>>

\* The clock between two calls of the tools.
EditTick ==
  /\ ticks < MaxTicks
  /\ now' = now + 1
  /\ ticks' = ticks + 1
  /\ last' = [op |-> "tick"]
  /\ UNCHANGED <<envVars, pageVars, ledgerVars, fsVars, procVars, ghostVars, handlerVars>>

CallWriteTextFile ==
  \E p \in EditPaths, content \in EditContents :
    \E r \in {writeTextFile(files, dirs, spawned, signals, RootA, p, content, now)} :
      EditCall("writeTextFile", p, TRUE, r)

\* applied: the range starts no later than the line after the last.
CallReplaceLines ==
  \E p \in EditPaths, startLine \in {1, MaxLines + 1} :
    \E r \in {replaceLines(files, dirs, spawned, signals, RootA, p, startLine, startLine,
                           <<"z">>, now)} :
      EditCall("replaceLines", p,
               r.ok /\ startLine <= Len(files[PathResolveFrom(RootA, p)].lines) + 1, r)

NextEdits ==
  \/ EditTick
  \/ CallWriteTextFile
  \/ CallReplaceLines

SpecEdits == InitEdits /\ [][NextEdits]_vars

EditTarget == PathResolveFrom(RootA, last.path)
BackupsDir ==
  PathJoin(<<RootA, <<".noctune_cache">>, <<"studio_edits">>, <<"backups">> >>)
BackupOf(absPath, t) == PathJoin(<<BackupsDir, <<Stamp(t)>>, pathRelative(RootA, absPath)>>)
BackupsIn(fs) == {p \in DOMAIN fs : StartsWith(p, BackupsDir \o <<Sep>>)}
Edited == last.op \in {"writeTextFile", "replaceLines"}
OverwroteOutsideCache ==
  /\ Edited
  /\ last.wrote
  /\ EditTarget \in DOMAIN last.filesBefore
  /\ ~isWithinNoctuneCache(RootA, EditTarget)

ReaddirOrders(fs, ds, dir) ==
  LET names == Readdir(fs, ds, dir)
  IN {e \in [1 .. Cardinality(names) -> names] :
        \A i, j \in 1 .. Cardinality(names) : i # j => e[i] # e[j]}

\* The place of a piece of a name in the order of UTF-16 code units: "."
\* sorts before the letters, and ".decision" before ".json".
CodeUnitRank(c) ==
  CASE c = ".decision" -> 1
    [] c = ".json" -> 2
    [] c = "a" -> 3
    [] OTHER -> 4

\* a < b as Array.prototype.sort compares two strings without a comparator.
RECURSIVE NameLess(_, _)
NameLess(a, b) ==
  IF b = <<>> THEN FALSE
  ELSE IF a = <<>> THEN TRUE
  ELSE IF Head(a) # Head(b) THEN CodeUnitRank(Head(a)) < CodeUnitRank(Head(b))
  ELSE NameLess(Tail(a), Tail(b))

\* entries.sort() of an enumeration, by insertion.
RECURSIVE arrayInsert(_, _)
arrayInsert(sorted, name) ==
  IF sorted = <<>> THEN <<name>>
  ELSE IF NameLess(name, Head(sorted)) THEN <<name>> \o sorted
  ELSE <<Head(sorted)>> \o arrayInsert(Tail(sorted), name)

RECURSIVE arraySort(_)
arraySort(entries) ==
  IF entries = <<>> THEN <<>>
  ELSE arrayInsert(arraySort(Tail(entries)), Head(entries))

IsJsonName(name) == EndsWith(name, <<".json">>)
Ascending(names) == \A i, j \in DOMAIN names : i < j => NameLess(names[i], names[j])

\* The file names behind the entries a listing returned.
ListedFileNames ==
  IF last.op = "listPending"
  THEN [k \in DOMAIN last.out.value.approvals |->
          last.out.value.approvals[k].id \o <<".json">>]
  ELSE [k \in DOMAIN last.out.value.approvals |->
          last.out.value.approvals[k].approval_id \o <<".json">>]

ListedDir == approvalsDir(resolveRepoRootOrThrow(last.repoRoot).value, Trim(last.runId))

ForeignDecision ==
  \E id \in MailIds :
    /\ ~Asked
    /\ requestPath(id) \in DOMAIN files
    /\ decisionPath(id) \notin DOMAIN files
    /\ files' = MapSet(files, decisionPath(id), Garbage)
    /\ last' = [op |-> "foreignDecision", id |-> id]
    /\ UNCHANGED <<envVars, pageVars, clockVars, ledgerVars, dirs, procVars, ghostVars,
                   handlerVars>>

NextQueue ==
  \/ WorkerRequest
  \/ ForeignDecision
  \/ CallDecide
  \/ CallListPending
  \/ CallListWithDecisions

SpecQueue == InitMailbox /\ [][NextQueue]_vars

\* The payloads listPending has just returned, as parsed values, and the
\* entries listWithDecisions reports undecided over the same files.
ReturnedPayloads == [k \in DOMAIN last.out.value.approvals |-> Num(last.out.value.approvals[k])]
UndecidedOf(root, runId) ==
  SelectSeq(listApprovalsWithDecisions(files, dirs, root, runId).value.approvals,
            LAMBDA x : ~x.decided)
ApprovalsOf(entries) == [k \in DOMAIN entries |-> entries[k].approval]

MaxLongLog == 502
LongLogLengths == {0, 1, 499, 500, 501, MaxLongLog}
LongLog(n) == Log([k \in 1 .. n |-> Line("json", k)])
WindowCursors == {Null} \cup {Num(c) : c \in {-7, -1, 0, 1, 2, 499, 500, 501, MaxLongLog,
                                               MaxLongLog + 1, 1000}}
WindowLimits == {Null} \cup {Num(l) : l \in {-7, -1, 0, 1, 2, 200, 499, 500, 501, 1000}}

InitWindow ==
  /\ cwd = ServerCwd
  /\ envRoots = <<>>
  /\ \E n \in LongLogLengths :
       /\ files = (IF n = 0 THEN <<>> ELSE [p \in {EventsLog1} |-> LongLog(n)])
       /\ dirs = (IF n = 0 THEN Mkdirp({}, ServerCwd)
                  ELSE Mkdirp(Mkdirp({}, ServerCwd), PathDirname(EventsLog1)))
  /\ InitProcess

CallTailWindow ==
  \E cursor \in WindowCursors, limit \in WindowLimits :
    \E out \in {tailNoctuneEvents(files, dirs, RootA, RunA, cursor, limit)} :
      /\ ~Tailed
      /\ last' = [op |-> "tail", cursor |-> cursor, limit |-> limit,
                  out |-> [ok |-> out.ok,
                           value |-> [cursor |-> out.value.cursor,
                                      nextCursor |-> out.value.nextCursor,
                                      count |-> Len(out.value.events)]]]
      /\ UNCHANGED <<envVars, pageVars, clockVars, ledgerVars, fsVars, procVars, ghostVars,
                     handlerVars>>

NextWindow == CallTailWindow

SpecWindow == InitWindow /\ [][NextWindow]_vars

LogLength == IF EventsLog1 \in DOMAIN files THEN Len(files[EventsLog1].lines) ELSE 0

\* C33: for every log length n and every integer cursor and limit, given
\* or not, tail returns 0 <= cursor <= nextCursor <= n with
\* nextCursor - cursor at most the limit clamped to 1 .. 500 (200 when none
\* is given), and nextCursor > cursor whenever cursor < n.
C33_WindowWithinLog ==
  last.op = "tail" =>
    LET v == last.out.value
    IN /\ last.out.ok
       /\ 0 <= v.cursor
       /\ v.cursor <= v.nextCursor
       /\ v.nextCursor <= LogLength
       /\ v.nextCursor - v.cursor <= 500
       /\ v.nextCursor - v.cursor <= ClampedLimit(last.limit)
       /\ v.cursor < LogLength => v.nextCursor > v.cursor

\* A limit of 1000 and a negative cursor on the longest log: the window is
\* the first 500 lines.
C33_Witness_LargestWindow ==
  /\ last.op = "tail"
  /\ last.cursor = Num(-1)
  /\ last.limit = Num(1000)
  /\ LogLength = MaxLongLog
  /\ last.out.value.cursor = 0
  /\ last.out.value.nextCursor = 500
  /\ last.out.value.count = 500

\* ------------------------------------- event tail, a line being written
\* The worker writes a line of its log in two writes: the beginning of the
\* JSON text first, which JSON.parse rejects and which no "\n" ends yet,
\* then the rest and the "\n".
WorkerBegin ==
  LET old == IF EventsLog1 \in DOMAIN files THEN files[EventsLog1].lines ELSE <<>>
  IN /\ Len(old) < MaxLines
     /\ \A k \in DOMAIN old : old[k].kind # "partial"
     /\ files' = MapSet(files, EventsLog1, Log(Append(old, Line("partial", Len(old) + 1))))
     /\ dirs' = Mkdirp(dirs, PathDirname(EventsLog1))
     /\ last' = [op |-> "begin"]
     /\ UNCHANGED <<envVars, pageVars, clockVars, ledgerVars, procVars, ghostVars,
                    handlerVars>>

WorkerComplete ==
  /\ EventsLog1 \in DOMAIN files
  /\ \E k \in DOMAIN files[EventsLog1].lines :
       /\ files[EventsLog1].lines[k].kind = "partial"
       /\ files' = MapSet(files, EventsLog1,
                          Log([files[EventsLog1].lines EXCEPT ![k] = Line("json", k)]))
  /\ last' = [op |-> "complete"]
  /\ UNCHANGED <<envVars, pageVars, clockVars, ledgerVars, dirs, procVars, ghostVars,
                 handlerVars>>

NextPartial ==
  \/ WorkerBegin
  \/ WorkerComplete
  \/ pollEvents
  \/ PollSmall

SpecPartial == InitTail /\ [][NextPartial]_vars

\* The event of line k has been sent to the polling client.
Delivered(k) == \E e \in DOMAIN events : events[e] = k

\* C34: an event whose line a call of tail saw partially written, and did
\* not parse, reaches the polling client once the worker has completed the
\* line: no complete line between the client's first cursor and the cursor
\* it holds is missing from what it was sent.  (The client's cursor never
\* moves back, so an event behind the cursor that was not sent is never
\* sent.)
C34_CompletedLineIsDelivered ==
  cursorRef # Null =>
    \A k \in 1 .. Len(LogLines) :
      (LogLines[k].kind = "json" /\ firstCursor[1] < k /\ k <= cursorRef[1]) => Delivered(k)

\* ------------------------------------------- stopping a run, the signal
\* The pids a caller hands to stop: none, the -1 start returns when spawn
\* gave the child no pid, a process of another user, and the first worker.
NoSpawnPid == 0 - 1
SignalPids == {NoPid, NoSpawnPid, FirstPid} \cup ForeignPids

\* The write tool of the chat, which needs no grant inside .noctune_cache,
\* writes a file below the place of run a's stop.flag, which makes the
\* place a directory.
BelowStopFlag ==
  <<".noctune_cache", "/", "runs", "/", "a", "/", "state", "/", "stop.flag", "/", "a">>
ToolWritesObstacle ==
  \E r \in {writeTextFile(files, dirs, spawned, signals, RootA, BelowStopFlag,
                          Text(<<"x">>), now)} :
    /\ StopFlagA \notin DOMAIN files
    /\ files' = r.files
    /\ dirs' = r.dirs
    /\ last' = [op |-> "writeFile", ok |-> r.ok]
    /\ UNCHANGED <<envVars, pageVars, clockVars, ledgerVars, procVars, ghostVars,
                   handlerVars>>

CallStopSignal ==
  \E runIdRaw \in StopRunIds, pid \in SignalPids :
    \E r \in {stopNoctuneRun(files, dirs, spawned, signals, LivePids(spawned, exited),
                             RootA, runIdRaw, pid)} :
      /\ files' = r.files
      /\ dirs' = r.dirs
      /\ spawned' = r.spawned
      /\ signals' = r.signals
      /\ last' = [op |-> "stop", runId |-> runIdRaw, pid |-> pid, ok |-> r.ok,
                  error |-> r.error, signalsBefore |-> signals]
      /\ UNCHANGED <<envVars, pageVars, clockVars, ledgerVars, ghostVars, handlerVars>>

NextSignal ==
  \/ CallStart
  \/ WorkerExit
  \/ ToolWritesObstacle
  \/ CallStopSignal

SpecSignal == InitStop /\ [][NextSignal]_vars

\* C36: stop sends a termination signal only when the pid it is given is a
\* positive process id; for no pid, zero or a negative pid, the -1 of a
\* spawn without pid among them, process.kill is not called.
C36_SignalOnlyPositivePid ==
  \A s \in signals : s.pid > 0

\* C37: stop writes the sentinel before it attempts the signal: when a call
\* of stop for run a has called process.kill, the call succeeded and run
\* a's stop.flag holds the stop text, and a call that failed, at the
\* sentinel or before, has sent no signal.
C37_SentinelBeforeSignal ==
  last.op = "stop" =>
    /\ signals # last.signalsBefore =>
         /\ last.ok
         /\ StopFlagA \in DOMAIN files
         /\ files[StopFlagA] = StopText
    /\ ~last.ok => signals = last.signalsBefore

\* A stop with the pid of a running worker failed at the sentinel, where a
\* directory stands, and sent no signal.
C37_Witness_FailedWriteNoSignal ==
  /\ last.op = "stop"
  /\ last.error = "writeFile failed"
  /\ last.pid \in LivePids(spawned, exited)
  /\ signals = {}

\* ----------------------------------- chat tools without a grant, the cache
\* A server on which nothing was ever granted: no once-token is issued, no
\* session is allowed, and no allow document exists.
InitEscalate ==
  /\ InitServer
  /\ files = <<>>

\* The write tool is asked to write the allow document of the root, with a
\* browsers object that names browser 1.
AllowDocFile == <<".noctune_cache", "/", "studio_allow.json">>
writeGrantTool ==
  \E id \in DOMAIN chats :
    ToolCall(id, "writeFile",
             chats[id].allowed \/ isSafeCachePath(chats[id].repoRoot, AllowDocFile),
             "write_not_allowed", ~isSafeCachePath(chats[id].repoRoot, AllowDocFile),
             writeTextFile(files, dirs, spawned, signals, chats[id].repoRoot, AllowDocFile,
                           AllowDoc([b \in {1} |-> TRUE]), now))

NextEscalate ==
  \/ ChatPost
  \/ writeGrantTool
  \/ writeFileTool
  \/ replaceLinesTool
  \/ StopRoute
  \/ ChatEnd

SpecEscalate == InitEscalate /\ [][NextEscalate]_vars

\* C38: where every permission evaluation so far returned not-allowed, the
\* chat tools have made no decision file, no stop sentinel and no allow
\* document, and so the next evaluation returns not-allowed as well.
C38_DeniedActorStaysDenied ==
  /\ SentinelsAndDecisions(files) = <<>>
  /\ \A root \in RootInputs : allowFilePath(root) \notin DOMAIN files
  /\ last.op # "none" => last.perm # "allowed"

\* ------------------------------------- gated routes that end in an error
\* C39: a stop or decide request that was evaluated allowed and then ended
\* in an error (the root is outside the allow-list) leaves the once-tokens
\* as they were: the token it presented is still in the store.
C39_ErrorKeepsOnceToken ==
  [][(last'.op \in {"stop", "decide"} /\ last'.perm = "allowed" /\ last'.error # "") =>
       onceTokens' = onceTokens]_vars

====
